---------------------------- MODULE Spec2Model ----------------------------
(***************************************************************************)
(* A model of the hand-evaluation engine of bookclub_rummy: the twelve     *)
(* meld scoring functions (src/src/scoring.rs), the best-meld resolvers    *)
(* (src/src/game.rs), the decision-tree builder and the probability        *)
(* aggregators (src/src/analysis.rs).                                      *)
(*                                                                         *)
(* A card is a record [rank, suite]; the Name field of the Rust struct is  *)
(* a function of the rank (Name::to_rank / Rank::to_name) and is left out. *)
(* A hand is a sequence of cards, as Vec<Card> is.                         *)
(***************************************************************************)
EXTENDS Integers, Sequences, FiniteSets, TLC

VARIABLES
    phase,      \* the position of the modelled run
    hand,       \* the cards of the hand being dealt
    scores,     \* the twelve scores of the dealt hand
    best,       \* the result of the best-meld resolver
    tree,       \* the Node tree handed to the aggregators
    analysis,   \* the RoundProbabilities the aggregators returned
    node,       \* the Node a tree builder is called on
    call,       \* that call: the builder, its argument, the generator's outcome
    card_values, \* the strategic valuation of the node's cards
    decision,   \* the AutoPlayDecision, or the Result of execute_autoplay_action
    deck        \* the draw pile and the discard pile of the Deck

scoreVars == <<hand, scores, best>>

aggVars == <<tree, analysis>>

buildVars == <<node, call>>

playVars == <<card_values, decision, deck>>

vars == <<phase, scoreVars, aggVars, buildVars, playVars>>

(***************************************************************************)
(* Cards                                                                   *)
(***************************************************************************)
Suites == {"s", "h", "c", "d"}

SuiteOrder == <<"s", "h", "c", "d">>

Ranks == 2..14

Card(r, s) == [rank |-> r, suite |-> s]

\* Rank::to_u64: the rank as a number 2..14.
to_u64(c) == c.rank

(***************************************************************************)
(* Vec helpers, as the standard library computes them                      *)
(***************************************************************************)
Min2(a, b) == IF a < b THEN a ELSE b

RECURSIVE InsertSorted(_, _)
InsertSorted(s, x) ==
    IF s = <<>> THEN <<x>>
    ELSE IF x < Head(s) THEN <<x>> \o s
    ELSE <<Head(s)>> \o InsertSorted(Tail(s), x)

\* Vec<u64>::sort
RECURSIVE SortU64(_)
SortU64(s) == IF s = <<>> THEN <<>> ELSE InsertSorted(SortU64(Tail(s)), Head(s))

\* Vec::dedup: removes consecutive repeated elements only.
RECURSIVE Dedup(_)
Dedup(s) ==
    IF Len(s) <= 1 THEN s
    ELSE IF s[1] = s[2] THEN Dedup(Tail(s))
    ELSE <<s[1]>> \o Dedup(Tail(s))

RankVec(h) == [i \in 1..Len(h) |-> to_u64(h[i])]

SuiteVec(h) == [i \in 1..Len(h) |-> h[i].suite]

\* The HashMap rank -> count of two_pair_score and its siblings, as the bag
\* of its values: the counts of the ranks that occur.
RankCount(h, r) == Cardinality({i \in 1..Len(h) : h[i].rank = r})

RanksOf(h) == {h[i].rank : i \in 1..Len(h)}

\* The HashMap suite -> Vec<rank> of sequence_of_three_score: the ranks of
\* one suite in hand order.
SuiteRanks(h, s) == RankVec(SelectSeq(h, LAMBDA c : c.suite = s))

\* `values`: the rank vectors of the suites holding at least 3 cards,
\* appended in the map's iteration order.  Among five cards at most one
\* suite holds three, so the iteration order cannot change the result.
RECURSIVE SuitedValuesFrom(_, _)
SuitedValuesFrom(h, k) ==
    IF k > Len(SuiteOrder) THEN <<>>
    ELSE LET vals == SuiteRanks(h, SuiteOrder[k])
         IN  (IF Len(vals) >= 3 THEN vals ELSE <<>>) \o SuitedValuesFrom(h, k + 1)

SuitedValues(h) == SortU64(Dedup(SuitedValuesFrom(h, 1)))

(***************************************************************************)
(* The twelve meld scoring functions (scoring.rs)                          *)
(***************************************************************************)
pair_score(h) ==
    IF \E i \in 1..Len(h) : \E j \in (i + 1)..Len(h) : h[i].rank = h[j].rank
    THEN 2 ELSE 0

two_pair_score(h) ==
    IF Cardinality({r \in RanksOf(h) : RankCount(h, r) >= 2}) = 2 THEN 5 ELSE 0

sequence_of_three_score(h) ==
    LET values == SuitedValues(h)
    IN  IF \E w \in 1..(Len(values) - 2) :
             /\ values[w + 2] = values[w + 1] + 1
             /\ values[w + 1] = values[w] + 1
        THEN 10 ELSE 0

three_of_a_kind_score(h) ==
    IF \E r \in RanksOf(h) : RankCount(h, r) = 3 THEN 15 ELSE 0

\* A straight read from the ranks in the order of the hand, without sorting.
straight_score_unsorted(h) ==
    LET values == RankVec(h)
    IN  IF \A w \in 1..(Len(values) - 1) : values[w] + 1 = values[w + 1]
        THEN 20 ELSE 0

straight_score(h) ==
    LET values == SortU64(RankVec(h))
    IN  IF \A w \in 1..(Len(values) - 1) : values[w] + 1 = values[w + 1]
        THEN 20 ELSE 0

flush_score(h) == IF Len(Dedup(SuiteVec(h))) = 1 THEN 25 ELSE 0

\* The loop of sequence_of_four_score over i = 0..len-2 (here i = 1..len-1).
RECURSIVE SeqFourLoop(_, _, _)
SeqFourLoop(values, i, sequence_len) ==
    IF i > Len(values) - 1 THEN 0
    ELSE LET n == IF values[i] + 1 = values[i + 1] THEN sequence_len + 1 ELSE 1
         IN  IF n = 4 THEN 30
             ELSE IF n < 2 /\ (i - 1) >= 2 THEN 0
             ELSE SeqFourLoop(values, i + 1, n)

sequence_of_four_score(h) ==
    LET values == SuitedValues(h)
    IN  IF Len(values) >= 4 THEN SeqFourLoop(values, 1, 1) ELSE 0

\* The loop of full_set_score over i = 0..len-2 (here i = 1..len-1).
RECURSIVE FullSetLoop(_, _, _)
FullSetLoop(values, i, sequence_len) ==
    IF i > Len(values) - 1 THEN 0
    ELSE LET n == IF values[i] + 1 = values[i + 1] THEN sequence_len + 1 ELSE 1
         IN  IF n = 3 THEN 35
             ELSE IF n < 2 /\ (i - 1) >= 1 THEN 0
             ELSE FullSetLoop(values, i + 1, n)

\* `pairs`: the windows of two equal neighbours of the sorted ranks; sorted,
\* its last element is the window of the highest paired rank.
PairWindows(values) == {values[w] : w \in {x \in 1..(Len(values) - 1) : values[x] = values[x + 1]}}

MaxOf(S) == CHOOSE x \in S : \A y \in S : y <= x

\* A full set that takes the run from the distinct ranks of the whole hand,
\* the cards of the pair included.
full_set_score_over_distinct_ranks(h) ==
    IF PairWindows(SortU64(RankVec(h))) # {}
    THEN FullSetLoop(Dedup(SortU64(RankVec(h))), 1, 1)
    ELSE 0

\* A full set that asks the three cards of the run to be of one suite.
full_set_score_suited(h) ==
    LET pairs == PairWindows(SortU64(RankVec(h)))
    IN  IF pairs # {}
        THEN LET high_pair  == MaxOf(pairs)
                 hand_clone == SelectSeq(h, LAMBDA c : to_u64(c) # high_pair)
             IN  IF \A i \in 1..Len(hand_clone) : hand_clone[i].suite = hand_clone[1].suite
                 THEN FullSetLoop(SortU64(RankVec(hand_clone)), 1, 1)
                 ELSE 0
        ELSE 0

full_set_score(h) ==
    LET pairs == PairWindows(SortU64(RankVec(h)))
    IN  IF pairs # {}
        THEN LET high_pair  == MaxOf(pairs)
                 hand_clone == SelectSeq(h, LAMBDA c : to_u64(c) # high_pair)
             IN  FullSetLoop(SortU64(RankVec(hand_clone)), 1, 1)
        ELSE 0

\* `frequencies`: the sorted counts of the ranks that occur.
Frequencies(h) ==
    LET rs == RanksOf(h)
        RECURSIVE Counts(_)
        Counts(S) == IF S = {} THEN <<>>
                     ELSE LET r == CHOOSE x \in S : TRUE
                          IN  <<RankCount(h, r)>> \o Counts(S \ {r})
    IN  SortU64(Counts(rs))

full_house_score(h) == IF Frequencies(h) = <<2, 3>> THEN 40 ELSE 0

four_of_a_kind_score(h) ==
    IF \E r \in RanksOf(h) : RankCount(h, r) = 4 THEN 50 ELSE 0

straight_flush_score(h) ==
    IF straight_score(h) > 0 /\ flush_score(h) > 0 THEN 80 ELSE 0

RECURSIVE SumSeq(_)
SumSeq(s) == IF s = <<>> THEN 0 ELSE Head(s) + SumSeq(Tail(s))

\* A royal flush that does not look at the sum of the ranks.
royal_flush_score_of_any_ranks(h) ==
    IF straight_score(h) > 0 /\ flush_score(h) > 0 THEN 100 ELSE 0

royal_flush_score(h) ==
    IF straight_score(h) > 0 /\ flush_score(h) > 0
    THEN (IF SumSeq(RankVec(h)) = 60 THEN 100 ELSE 0)
    ELSE 0

\* MELD_FUNCTIONS applied to one hand, in the order of the table.
MeldScores(h) ==
    << pair_score(h), two_pair_score(h), sequence_of_three_score(h),
       three_of_a_kind_score(h), straight_score(h), flush_score(h),
       sequence_of_four_score(h), full_set_score(h), full_house_score(h),
       four_of_a_kind_score(h), straight_flush_score(h), royal_flush_score(h) >>

(***************************************************************************)
(* The best-meld resolvers (game.rs)                                       *)
(***************************************************************************)
\* The loop `if score > best_score { best_score = score }` over MELD_FUNCTIONS.
RECURSIVE BestScoreLoop(_, _, _)
BestScoreLoop(ms, k, best_score) ==
    IF k > Len(ms) THEN best_score
    ELSE BestScoreLoop(ms, k + 1, IF ms[k] > best_score THEN ms[k] ELSE best_score)

\* A resolver that lets melds stack: the scores are added up.
calculate_best_meld_stacking(h) ==
    [score |-> SumSeq(MeldScores(h)), hand |-> h]

calculate_best_meld_from_5_card_hand(h) ==
    [score |-> BestScoreLoop(MeldScores(h), 1, 0), hand |-> h]

\* hand.cards without the card at skip_idx, in hand order.
WithoutIndex(h, skip_idx) ==
    [i \in 1..(Len(h) - 1) |-> IF i < skip_idx THEN h[i] ELSE h[i + 1]]

SeqRange(s) == {s[i] : i \in 1..Len(s)}

MinOf(S) == CHOOSE x \in S : \A y \in S : x <= y

\* The scores the twelve functions give the hand without the card at
\* skip_idx; nothing is entered for a hand that has not exactly 5 cards.
ScoresWithout(h, skip_idx) ==
    LET five_card_hand == WithoutIndex(h, skip_idx)
    IN  IF Len(five_card_hand) = 5 THEN SeqRange(MeldScores(five_card_hand)) ELSE {}

\* score_to_hand after the loop over skip_idx and MELD_FUNCTIONS:
\* entry(score).or_insert_with(five_card_hand) keeps the first hand entered
\* under a score, the hand of the lowest skip_idx that gives the score.
\* A loop that stops one removal early: the last card is never left out.
ScoreToHandShort(h) ==
    CHOOSE score_to_hand \in
        { [score \in {e[1] : e \in entered} |->
              WithoutIndex(h, MinOf({e[2] : e \in {x \in entered : x[1] = score}}))] :
            entered \in
                {UNION {{<<score, skip_idx>> : score \in ScoresWithout(h, skip_idx)} :
                            skip_idx \in 1..(Len(h) - 1)}} } : TRUE

\* `entered` is computed once: it is the one element of a set, and
\* `CHOOSE r \in {F(v) : v \in {e}} : TRUE` is F(e).
ScoreToHand(h) ==
    CHOOSE score_to_hand \in
        { [score \in {e[1] : e \in entered} |->
              WithoutIndex(h, MinOf({e[2] : e \in {x \in entered : x[1] = score}}))] :
            entered \in
                {UNION {{<<score, skip_idx>> : score \in ScoresWithout(h, skip_idx)} :
                            skip_idx \in 1..Len(h)}} } : TRUE

calculate_best_meld_from_hand(h) ==
    LET Best(score_to_hand, best_score) ==
            [score |-> best_score, hand |-> score_to_hand[best_score]]
    IN  CHOOSE best_meld \in
            { IF DOMAIN score_to_hand # {}
              THEN Best(score_to_hand, MaxOf(DOMAIN score_to_hand))
              ELSE [score |-> 0, hand |-> h] :
                score_to_hand \in {ScoreToHand(h)} } : TRUE

(***************************************************************************)
(* Dealing and scoring a hand                                              *)
(*                                                                         *)
(* The deck of this specification holds the spades 9..A and the first      *)
(* NumExtraCards of ExtraCards: enough for each of the twelve melds, and   *)
(* for a hand without a meld, to be dealt, in every order of the cards.    *)
(***************************************************************************)
NumExtraCards == 4

ExtraCards ==
    << Card(10, "h"), Card(10, "c"), Card(10, "d"), Card(11, "h"),
       Card(12, "h"), Card(9, "h"), Card(13, "c") >>

ScoreDeck ==
    {Card(r, "s") : r \in 9..14}
        \cup {ExtraCards[i] : i \in 1..Min2(NumExtraCards, Len(ExtraCards))}

\* The deck of the 6-card specification: the spades 10..A and the first
\* NumResolveExtra of ResolveExtraCards.
NumResolveExtra == 3

ResolveExtraCards ==
    << Card(10, "h"), Card(11, "h"), Card(10, "c"), Card(12, "d"),
       Card(9, "s"), Card(13, "h") >>

ResolveDeck ==
    {Card(r, "s") : r \in 10..14}
        \cup {ResolveExtraCards[i] : i \in 1..Min2(NumResolveExtra, Len(ResolveExtraCards))}

InHand(h, c) == \E i \in 1..Len(h) : h[i] = c

NoScores == <<>>

NoBest == [score |-> 0, hand |-> <<>>]

\* The variables of the other specifications stay at these values.
NoTree == <<>>

NoAnalysis == <<>>

ScoreIdle == hand = <<>> /\ scores = NoScores /\ best = NoBest

AggIdle == tree = NoTree /\ analysis = NoAnalysis

NoNode == <<>>

NoCall == <<>>

BuildIdle == node = NoNode /\ call = NoCall

NoValues == <<>>

NoDecision == <<>>

NoDeck == <<>>

PlayIdle == card_values = NoValues /\ decision = NoDecision /\ deck = NoDeck

Init ==
    /\ hand = <<>>
    /\ phase = "dealing"
    /\ scores = NoScores
    /\ best = NoBest
    /\ AggIdle
    /\ BuildIdle
    /\ PlayIdle

\* deal_cards: player.hand.cards.push(card), five times for a player.
DealCard(c) ==
    /\ Len(hand) < 5
    /\ ~InHand(hand, c)
    /\ hand' = Append(hand, c)
    /\ phase' = IF Len(hand) = 4 THEN "dealt" ELSE "dealing"
    /\ UNCHANGED <<scores, best, aggVars, buildVars, playVars>>

\* The turn's draw: current_player.hand.cards.push(drawn_card).
DrawCard(c) ==
    /\ phase = "dealt"
    /\ ~InHand(hand, c)
    /\ hand' = Append(hand, c)
    /\ phase' = "drawn"
    /\ UNCHANGED <<scores, best, aggVars, buildVars, playVars>>

\* The 5-card hand is scored: each meld function, and the resolver.
ScoreHand ==
    /\ phase = "dealt"
    /\ scores' = MeldScores(hand)
    /\ best' = calculate_best_meld_from_5_card_hand(hand)
    /\ phase' = "scored"
    /\ UNCHANGED <<hand, aggVars, buildVars, playVars>>

\* The 6-card hand is resolved to its best 5-card hand.
ResolveHand ==
    /\ phase = "drawn"
    /\ best' = calculate_best_meld_from_hand(hand)
    /\ phase' = "resolved"
    /\ UNCHANGED <<hand, scores, aggVars, buildVars, playVars>>

\* 5-card hands, dealt in every order, and scored.
Next ==
    \/ \E c \in ScoreDeck : DealCard(c)
    \/ ScoreHand

Spec == Init /\ [][Next]_vars

\* 6-card hands: a dealt hand, a drawn card, and the resolver.
NextResolve ==
    \/ \E c \in ResolveDeck : DealCard(c)
    \/ \E c \in ResolveDeck : DrawCard(c)
    \/ ResolveHand

SpecResolve == Init /\ [][NextResolve]_vars

\* Hands of one suite around the royal flush: the royal flush, and four of
\* the ranks 10..A with a fifth card of the suite below 10, which is put
\* first or last in the hand.
RoyalRanks == 10..14

LowRanks == 2..9

RoyalSuites == {"s", "h"}

RoyalHand(s) == [i \in 1..5 |-> Card(9 + i, s)]

NearRoyalHand(s, missing, fifth, fifth_first) ==
    LET four == [i \in 1..4 |-> Card(IF 9 + i < missing THEN 9 + i ELSE 10 + i, s)]
    IN  IF fifth_first THEN <<Card(fifth, s)>> \o four ELSE Append(four, Card(fifth, s))

NearRoyalHands ==
    {NearRoyalHand(s, missing, fifth, fifth_first) :
        s \in RoyalSuites, missing \in RoyalRanks, fifth \in LowRanks,
        fifth_first \in BOOLEAN}

InitRoyal ==
    /\ hand \in NearRoyalHands \cup {RoyalHand(s) : s \in RoyalSuites}
    /\ phase = "dealt"
    /\ scores = NoScores
    /\ best = NoBest
    /\ AggIdle
    /\ BuildIdle
    /\ PlayIdle

NextRoyal == ScoreHand

\* The hand of two pairs of neighbouring ranks and a fifth card, in every
\* order of its cards (scoring.rs, test_two_pair_score).
TwoPairCards == << Card(2, "s"), Card(2, "h"), Card(3, "c"), Card(3, "d"), Card(4, "s") >>

Orders(n) == {p \in [1..n -> 1..n] : \A i \in 1..n : \A j \in 1..n : p[i] = p[j] => i = j}

InitTwoPair ==
    /\ hand \in {[i \in 1..5 |-> TwoPairCards[p[i]]] : p \in Orders(5)}
    /\ phase = "dealt"
    /\ scores = NoScores
    /\ best = NoBest
    /\ AggIdle
    /\ BuildIdle
    /\ PlayIdle

NextTwoPair == ScoreHand

SpecTwoPair == InitTwoPair /\ [][NextTwoPair]_vars

SpecRoyal == InitRoyal /\ [][NextRoyal]_vars

\* Hands around the full set: pairs of the ranks 2..5, single cards of the
\* ranks 6 and 9, in several suites; among them the hands of
\* test_full_set_score (scoring.rs), 2s,2h,3s,4d,5h and 2s,2h,3s,3h,4h.
FullSetDeck ==
    { Card(2, "s"), Card(2, "h"), Card(3, "s"), Card(3, "h"), Card(4, "h"),
      Card(4, "d"), Card(5, "h"), Card(5, "c"), Card(6, "d"), Card(9, "c") }

NextFullSet ==
    \/ \E c \in FullSetDeck : DealCard(c)
    \/ ScoreHand

SpecFullSet == Init /\ [][NextFullSet]_vars

(***************************************************************************)
(* Probability mass                                                        *)
(*                                                                         *)
(* The aggregators compute in f64.  The model computes the same sums and   *)
(* quotients exactly, on fractions <<numerator, denominator>> in lowest    *)
(* terms; the rounding of f64 is not modelled.                             *)
(***************************************************************************)
Abs(n) == IF n < 0 THEN -n ELSE n

\* In the arithmetic an operand is computed once and then read several
\* times: it is the one element of a set, and
\* `CHOOSE r \in {F(v) : v \in {e}} : TRUE` is F(e).
RECURSIVE GCD(_, _)
GCD(a, b) == IF b = 0 THEN a ELSE CHOOSE g \in {GCD(b, r) : r \in {a % b}} : TRUE

Frac(n, d) ==
    LET Reduced(v, g) == IF g = 0 THEN <<0, 1>> ELSE <<v[1] \div g, v[2] \div g>>
    IN  CHOOSE f \in {Reduced(w[1], w[2]) :
                         w \in {<<v, GCD(Abs(v[1]), v[2])>> : v \in {<<n, d>>}}} : TRUE

Zero == <<0, 1>>

One == <<1, 1>>

\* The sum over the least common denominator, which keeps the terms small.
FAdd(x, y) ==
    LET Sum(a, b, g) ==
            Frac(a[1] * (b[2] \div g) + b[1] * (a[2] \div g), (a[2] \div g) * b[2])
    IN  CHOOSE f \in {Sum(w[1], w[2], w[3]) :
                         w \in {<<v[1], v[2], GCD(v[1][2], v[2][2])>> : v \in {<<x, y>>}}} :
            TRUE

FMulInt(x, k) == CHOOSE f \in {Frac(v[1][1] * v[2], v[1][2]) : v \in {<<x, k>>}} : TRUE

FDivInt(x, k) == CHOOSE f \in {Frac(v[1][1], v[1][2] * v[2]) : v \in {<<x, k>>}} : TRUE

FDiv(x, y) ==
    CHOOSE f \in {Frac(v[1][1] * v[2][2], v[1][2] * v[2][1]) : v \in {<<x, y>>}} : TRUE

\* The order of two fractions, -1, 0 or 1, by their integer parts and then,
\* inverted, by the reciprocals of what remains; no product is formed.
RECURSIVE FCompare(_, _)
FCompare(x, y) ==
    LET Compared(fx, fy, rx, ry, a, b) ==
            IF fx # fy THEN (IF fx < fy THEN -1 ELSE 1)
            ELSE IF rx = 0 \/ ry = 0 THEN (IF rx = ry THEN 0 ELSE IF rx = 0 THEN -1 ELSE 1)
            ELSE FCompare(<<b[2], ry>>, <<a[2], rx>>)
    IN  CHOOSE c \in
            {Compared(w[1], w[2], w[3], w[4], w[5], w[6]) :
                w \in {<<v[1][1] \div v[1][2], v[2][1] \div v[2][2],
                         v[1][1] % v[1][2], v[2][1] % v[2][2], v[1], v[2]>> :
                           v \in {<<x, y>>}}} : TRUE

FLeq(x, y) == FCompare(x, y) <= 0

\* `as usize` of a non-negative f64: the integer part.
FloorOf(x) == CHOOSE n \in {v[1] \div v[2] : v \in {x}} : TRUE

FMul(x, y) ==
    LET Product(a, b, g1, g2) ==
            Frac((a[1] \div g1) * (b[1] \div g2), (a[2] \div g2) * (b[2] \div g1))
    IN  CHOOSE f \in
            {IF w[1][1] = 0 \/ w[2][1] = 0 THEN <<0, 1>>
             ELSE Product(w[1], w[2], w[3], w[4]) :
                w \in {<<v[1], v[2], GCD(Abs(v[1][1]), v[2][2]),
                         GCD(Abs(v[2][1]), v[1][2])>> : v \in {<<x, y>>}}} : TRUE

FSub(x, y) == CHOOSE f \in {FAdd(v[1], <<-v[2][1], v[2][2]>>) : v \in {<<x, y>>}} : TRUE

FLt(x, y) == FCompare(x, y) < 0

FMax(x, y) ==
    CHOOSE m \in {IF FLt(v[1], v[2]) THEN v[2] ELSE v[1] : v \in {<<x, y>>}} : TRUE

\* `as f64` of an integer.
FromInt(n) == <<n, 1>>

\* The sum of s[i..Len(s)].
RECURSIVE FSumFrom(_, _)
FSumFrom(s, i) == IF i > Len(s) THEN Zero ELSE FAdd(s[i], FSumFrom(s, i + 1))

FSum(s) == CHOOSE f \in {FSumFrom(v, 1) : v \in {s}} : TRUE

(***************************************************************************)
(* The path-weighted aggregator (analysis.rs, analyze_round_with_paths)    *)
(***************************************************************************)
\* HashMap::new()
EmptyMap == [x \in {} |-> 0]

\* `outcomes`, `total_prob` and `total_paths` before anything is collected.
NoPaths == [outcomes |-> EmptyMap, total_prob |-> Zero, total_paths |-> 0]

\* The mass of a score overwritten by each path instead of accumulated.
AddPathOverwriting(acc, score, prob) ==
    [outcomes    |-> IF score \in DOMAIN acc.outcomes
                     THEN [acc.outcomes EXCEPT ![score] = prob]
                     ELSE acc.outcomes @@ (score :> prob),
     total_prob  |-> FAdd(acc.total_prob, prob),
     total_paths |-> acc.total_paths + 1]

\* *outcomes.entry(score).or_insert(0.0) += prob; *total_prob += prob;
\* *total_paths += 1
AddPath(acc, score, prob) ==
    [outcomes    |-> IF score \in DOMAIN acc.outcomes
                     THEN [acc.outcomes EXCEPT ![score] = FAdd(@, prob)]
                     ELSE acc.outcomes @@ (score :> prob),
     total_prob  |-> FAdd(acc.total_prob, prob),
     total_paths |-> acc.total_paths + 1]

\* for possible_hand in &self.possible_hands { ... += branch_prob }
\* In the loops `after` is the accumulator after one iteration: the one
\* element of a set, so that its value is computed before the loop goes on.
RECURSIVE AddHandPaths(_, _, _, _)
AddHandPaths(acc, possible_hands, k, branch_prob) ==
    IF k > Len(possible_hands) THEN acc
    ELSE CHOOSE result \in
             { AddHandPaths(after, possible_hands, k + 1, branch_prob) :
                 after \in {AddPath(acc, possible_hands[k].meld_score, branch_prob)} } : TRUE

RECURSIVE collect_weighted_paths(_, _, _, _, _)
RECURSIVE CollectBranches(_, _, _, _, _, _)
\* for branch in &self.branches { branch.collect_weighted_paths(...) }
CollectBranches(branches, k, current_depth, target_depth, branch_prob, acc) ==
    IF k > Len(branches) THEN acc
    ELSE CHOOSE result \in
             { CollectBranches(branches, k + 1, current_depth, target_depth, branch_prob,
                               after) :
                 after \in {collect_weighted_paths(branches[k], current_depth + 1,
                                                    target_depth, branch_prob, acc)} } : TRUE

collect_weighted_paths(self, current_depth, target_depth, current_probability, acc) ==
    IF current_depth = target_depth
    THEN IF self.possible_hands # <<>>
         THEN AddHandPaths(acc, self.possible_hands, 1,
                           FDivInt(current_probability, Len(self.possible_hands)))
         ELSE AddPath(acc, self.baseline_score, current_probability)
    ELSE IF current_depth < target_depth
    THEN IF self.branches # <<>>
         THEN CollectBranches(self.branches, 1, current_depth, target_depth,
                              FDivInt(current_probability, Len(self.branches)), acc)
         ELSE IF self.possible_hands # <<>>
         THEN AddHandPaths(acc, self.possible_hands, 1,
                           FDivInt(current_probability, Len(self.possible_hands)))
         ELSE AddPath(acc, self.baseline_score, current_probability)
    ELSE acc

\* improvements.sort_by(|a, b| b.final_score.cmp(&a.final_score)): the
\* buckets of a map, one per score, highest score first.
RECURSIVE SortedDescending(_)
SortedDescending(S) ==
    IF S = {} THEN <<>> ELSE LET m == MaxOf(S) IN <<m>> \o SortedDescending(S \ {m})

\* The sums with the outcomes equal to the baseline counted as a degradation.
SummariseCountingTies(round, total_simulations, baseline, improvements) ==
    LET n == Len(improvements)
        probs(Keep(_)) ==
            [i \in 1..n |-> IF Keep(improvements[i]) THEN improvements[i].probability
                            ELSE Zero]
    IN  [round                      |-> round,
         total_simulations          |-> total_simulations,
         baseline_score             |-> baseline,
         improvements               |-> improvements,
         probability_of_improvement |-> FSum(probs(LAMBDA o : o.improvement > 0)),
         expected_improvement       |->
             FSum([i \in 1..n |-> FMulInt(improvements[i].probability,
                                          improvements[i].improvement)]),
         risk_of_degradation        |-> FSum(probs(LAMBDA o : o.improvement <= 0))]

\* The three sums over the buckets, common to both aggregators.
Summarise(round, total_simulations, baseline, improvements) ==
    LET n == Len(improvements)
        probs(Keep(_)) ==
            [i \in 1..n |-> IF Keep(improvements[i]) THEN improvements[i].probability
                            ELSE Zero]
    IN  [round                      |-> round,
         total_simulations          |-> total_simulations,
         baseline_score             |-> baseline,
         improvements               |-> improvements,
         probability_of_improvement |-> FSum(probs(LAMBDA o : o.improvement > 0)),
         expected_improvement       |->
             FSum([i \in 1..n |-> FMulInt(improvements[i].probability,
                                          improvements[i].improvement)]),
         risk_of_degradation        |-> FSum(probs(LAMBDA o : o.improvement < 0))]

EmptyRound(target_depth, baseline) ==
    [round |-> target_depth, total_simulations |-> 0, baseline_score |-> baseline,
     improvements |-> <<>>, probability_of_improvement |-> Zero,
     expected_improvement |-> Zero, risk_of_degradation |-> Zero]

\* The normalisation done by the number of paths instead of the total mass.
analyze_round_by_path_count(self, target_depth, baseline) ==
    LET acc == collect_weighted_paths(self, 0, target_depth, One, NoPaths)
    IN  IF DOMAIN acc.outcomes = {} \/ acc.total_prob = Zero
        THEN EmptyRound(target_depth, baseline)
        ELSE LET order == SortedDescending(DOMAIN acc.outcomes)
                 improvements ==
                     [i \in 1..Len(order) |->
                         [final_score |-> order[i],
                          improvement |-> order[i] - baseline,
                          probability |-> FDivInt(acc.outcomes[order[i]], acc.total_paths),
                          path_count  |-> FloorOf(FMulInt(acc.outcomes[order[i]],
                                                          acc.total_paths))]]
             IN  Summarise(target_depth,
                           FloorOf(FMulInt(acc.total_prob, acc.total_paths)),
                           baseline, improvements)

analyze_round_with_paths(self, target_depth, baseline) ==
    LET acc == collect_weighted_paths(self, 0, target_depth, One, NoPaths)
    IN  IF DOMAIN acc.outcomes = {} \/ acc.total_prob = Zero
        THEN EmptyRound(target_depth, baseline)
        ELSE LET order == SortedDescending(DOMAIN acc.outcomes)
                 improvements ==
                     [i \in 1..Len(order) |->
                         [final_score |-> order[i],
                          improvement |-> order[i] - baseline,
                          probability |-> FDiv(acc.outcomes[order[i]], acc.total_prob),
                          path_count  |-> FloorOf(FMulInt(acc.outcomes[order[i]],
                                                          acc.total_paths))]]
             IN  Summarise(target_depth,
                           FloorOf(FMulInt(acc.total_prob, acc.total_paths)),
                           baseline, improvements)

create_baseline_round(baseline) ==
    [round |-> 0, total_simulations |-> 1, baseline_score |-> baseline,
     improvements |-> << [final_score |-> baseline, improvement |-> 0,
                          probability |-> One, path_count |-> 1] >>,
     probability_of_improvement |-> Zero, expected_improvement |-> Zero,
     risk_of_degradation |-> Zero]

(***************************************************************************)
(* The leaf-counting aggregator (analysis.rs, analyze_realistic_round)     *)
(***************************************************************************)
NoCounts == [outcomes |-> EmptyMap, total_count |-> 0]

\* *outcomes.entry(score).or_insert(0) += 1; *total_count += 1
AddCount(acc, score) ==
    [outcomes    |-> IF score \in DOMAIN acc.outcomes
                     THEN [acc.outcomes EXCEPT ![score] = @ + 1]
                     ELSE acc.outcomes @@ (score :> 1),
     total_count |-> acc.total_count + 1]

RECURSIVE AddHandCounts(_, _, _)
AddHandCounts(acc, possible_hands, k) ==
    IF k > Len(possible_hands) THEN acc
    ELSE CHOOSE result \in
             { AddHandCounts(after, possible_hands, k + 1) :
                 after \in {AddCount(acc, possible_hands[k].meld_score)} } : TRUE

RECURSIVE collect_direct_outcomes_at_depth(_, _, _, _)
RECURSIVE CountBranches(_, _, _, _, _)
CountBranches(branches, k, current_depth, target_depth, acc) ==
    IF k > Len(branches) THEN acc
    ELSE CHOOSE result \in
             { CountBranches(branches, k + 1, current_depth, target_depth, after) :
                 after \in {collect_direct_outcomes_at_depth(branches[k], current_depth + 1,
                                                              target_depth, acc)} } : TRUE

collect_direct_outcomes_at_depth(self, current_depth, target_depth, acc) ==
    IF current_depth = target_depth
    THEN IF self.possible_hands # <<>>
         THEN AddHandCounts(acc, self.possible_hands, 1)
         ELSE AddCount(acc, self.baseline_score)
    ELSE IF current_depth < target_depth /\ self.branches # <<>>
    THEN CountBranches(self.branches, 1, current_depth, target_depth, acc)
    ELSE IF current_depth < target_depth /\ self.branches = <<>>
    THEN IF self.possible_hands # <<>>
         THEN AddHandCounts(acc, self.possible_hands, 1)
         ELSE acc
    ELSE acc

\* Option<RoundProbabilities>: None is <<>>, Some(r) is <<r>>.
analyze_realistic_round(self, target_depth, baseline) ==
    LET acc == collect_direct_outcomes_at_depth(self, 0, target_depth, NoCounts)
    IN  IF acc.total_count = 0 THEN <<>>
        ELSE LET order == SortedDescending(DOMAIN acc.outcomes)
                 improvements ==
                     [i \in 1..Len(order) |->
                         [final_score |-> order[i],
                          improvement |-> order[i] - baseline,
                          probability |-> Frac(acc.outcomes[order[i]], acc.total_count),
                          path_count  |-> acc.outcomes[order[i]]]]
             IN  << Summarise(target_depth, acc.total_count, baseline, improvements) >>

(***************************************************************************)
(* Trees handed to the aggregators                                         *)
(*                                                                         *)
(* The aggregators read three fields of a Node: baseline_score, the        *)
(* meld_score of each possible hand, and branches.  Trees of every shape   *)
(* of up to MaxNodes nodes and depth 3 are grown from the leaves of        *)
(* LeafKinds, a child at a time.                                           *)
(***************************************************************************)
MaxNodes == 4

MaxDepth == 3

Leaf(baseline, hand_scores) ==
    [baseline_score |-> baseline,
     possible_hands |-> [i \in 1..Len(hand_scores) |-> [meld_score |-> hand_scores[i]]],
     branches       |-> <<>>]

LeafKinds ==
    { Leaf(2, <<>>), Leaf(0, <<>>), Leaf(2, <<0, 2>>), Leaf(5, <<5, 0, 5>>),
      Leaf(5, <<15>>) }

RECURSIVE NodeCount(_)
NodeCount(n) ==
    1 + SumSeq([i \in 1..Len(n.branches) |-> NodeCount(n.branches[i])])

\* The paths (child indices from the root) to the nodes of a tree.
RECURSIVE PathsOf(_)
PathsOf(n) ==
    {<<>>} \cup UNION {{<<i>> \o q : q \in PathsOf(n.branches[i])} :
                          i \in 1..Len(n.branches)}

\* branches.push(leaf) at the node a path leads to.
RECURSIVE Graft(_, _, _)
Graft(n, path, leaf) ==
    IF path = <<>> THEN [n EXCEPT !.branches = Append(@, leaf)]
    ELSE [n EXCEPT !.branches[Head(path)] = Graft(@, Tail(path), leaf)]

InitAgg ==
    /\ phase = "building"
    /\ tree \in LeafKinds
    /\ analysis = NoAnalysis
    /\ ScoreIdle
    /\ BuildIdle
    /\ PlayIdle

\* A child is added to a node of the tree.
AddBranch(path, leaf) ==
    /\ phase = "building"
    /\ NodeCount(tree) < MaxNodes
    /\ path \in PathsOf(tree)
    /\ Len(path) < MaxDepth
    /\ tree' = Graft(tree, path, leaf)
    /\ UNCHANGED <<phase, analysis, scoreVars, buildVars, playVars>>

\* calculate_cumulative_probabilities: round 0, then the path-weighted
\* rounds 1, 2 and 3.
AnalyzePaths ==
    /\ phase = "building"
    /\ analysis' =
          [paths |-> <<create_baseline_round(tree.baseline_score)>> \o
                     [d \in 1..3 |-> analyze_round_with_paths(tree, d, tree.baseline_score)],
           realistic |-> <<>>]
    /\ phase' = "paths"
    /\ UNCHANGED <<tree, scoreVars, buildVars, playVars>>

\* analyze_realistic_round for the target depths 1, 2 and 3.
AnalyzeRealistic ==
    /\ phase = "paths"
    /\ analysis' =
          [analysis EXCEPT !.realistic =
              [d \in 1..3 |-> analyze_realistic_round(tree, d, tree.baseline_score)]]
    /\ phase' = "realistic"
    /\ UNCHANGED <<tree, scoreVars, buildVars, playVars>>

NextAgg ==
    \/ \E path \in UNION {[1..n -> 1..MaxNodes] : n \in 0..(MaxDepth - 1)} :
           \E leaf \in LeafKinds : AddBranch(path, leaf)
    \/ AnalyzePaths
    \/ AnalyzeRealistic

SpecAgg == InitAgg /\ [][NextAgg]_vars

(***************************************************************************)
(* The tree builder (analysis.rs, evaluate_hand and evaluate_hand_parallel) *)
(*                                                                         *)
(* `node` is the Node a builder is called on and `call` the call: which    *)
(* builder, the node as it was passed in, and the outcome of the random    *)
(* generator.  One step is one call of a builder on its node: the sort,    *)
(* every discard candidate, the gate, the sampling, the pruning and the    *)
(* construction of the children.  The builder's recursive call             *)
(* evaluate_hand(&mut branch) on a child is the step Recurse, which moves  *)
(* to that child; a child works on its own clones, so the calls on the     *)
(* children are independent of each other.  The children in node.branches  *)
(* are therefore as the Node { ... } expression constructs them.           *)
(***************************************************************************)
SAMPLE_SIZE == 10

\* The outcomes of the random generator considered for one call.
NumShuffles == 2

Builders == {"evaluate_hand", "evaluate_hand_parallel"}

\* cards.sort_unstable() with Card::cmp, which compares the ranks only:
\* cards of equal rank keep their order.
RECURSIVE SortCards(_)
SortCards(cards) ==
    IF cards = <<>> THEN <<>>
    ELSE LET sorted == SortCards(SubSeq(cards, 1, Len(cards) - 1))
             last   == cards[Len(cards)]
             before == SelectSeq(sorted, LAMBDA c : to_u64(c) <= to_u64(last))
             after  == SelectSeq(sorted, LAMBDA c : to_u64(c) > to_u64(last))
         IN  before \o <<last>> \o after

\* meld_scores.iter().copied().max().unwrap_or(0) over MELD_FUNCTIONS.
MaxMeldScore(new_hand) == MaxOf(SeqRange(MeldScores(new_hand)) \cup {0})

\* A cap that is never applied: every available card is sampled.
SampleCountUncapped(available_samples) == Len(available_samples)

\* 10.min(available_samples.len())
SampleCount(available_samples) == Min2(SAMPLE_SIZE, Len(available_samples))

\* samples.partial_shuffle(&mut rng, sample_count): sample_count of the
\* cards.  The generator's outcome is `shuffle`: the cards are taken in the
\* order of the pool, cyclically, after its first `shuffle` cards.
Selected(available_samples, sample_count, shuffle) ==
    LET n == Len(available_samples)
    IN  [i \in 1..sample_count |-> available_samples[((i - 1 + shuffle) % n) + 1]]

\* A child that is handed its parent's pool with the drawn card still in it.
BranchKeepingDrawnCard(parent, base_hand, drawn_card, discard, max_meld_score) ==
    LET simulated_hand == Append(base_hand, drawn_card)
    IN  [full_hand      |-> simulated_hand,
         possible_hands |-> <<>>,
         possible_cards |-> parent.possible_cards,
         discard_pile   |-> Append(parent.discard_pile, discard),
         meld_score     |-> <<max_meld_score>>,
         baseline_score |-> calculate_best_meld_from_hand(simulated_hand).score,
         branches       |-> <<>>,
         depth          |-> parent.depth + 1]

\* The Node { ... } of a sampled draw.
Branch(parent, base_hand, drawn_card, discard, max_meld_score) ==
    LET simulated_hand == Append(base_hand, drawn_card)
    IN  [full_hand      |-> simulated_hand,
         possible_hands |-> <<>>,
         possible_cards |-> SelectSeq(parent.possible_cards, LAMBDA c : c # drawn_card),
         discard_pile   |-> Append(parent.discard_pile, discard),
         meld_score     |-> <<max_meld_score>>,
         baseline_score |-> calculate_best_meld_from_hand(simulated_hand).score,
         branches       |-> <<>>,
         depth          |-> parent.depth + 1]

\* A pruning that keeps the children that only equal the parent's baseline.
PrunedOnlyWorse(parent, branch) ==
    parent.depth > 1 /\ branch.baseline_score < parent.baseline_score

\* A pruning that applies at every depth.
PrunedAtEveryDepth(parent, branch) ==
    branch.baseline_score <= parent.baseline_score

\* if current_depth > 1 && branch_baseline <= parent_baseline { continue }
Pruned(parent, branch) ==
    parent.depth > 1 /\ branch.baseline_score <= parent.baseline_score

evaluate_branches(parent, base_hand, available_samples, discard, max_meld_score, shuffle) ==
    LET sample_count == SampleCount(available_samples)
    IN  IF parent.possible_cards = <<>> THEN parent
        ELSE LET selected == Selected(available_samples, sample_count, shuffle)
                 branches ==
                     [k \in 1..Len(selected) |->
                         Branch(parent, base_hand, selected[k], discard, max_meld_score)]
             IN  [parent EXCEPT !.branches =
                     @ \o SelectSeq(branches, LAMBDA b : ~Pruned(parent, b))]

evaluate_branches_parallel(parent, base_hand, available_samples, discard, max_meld_score, shuffle) ==
    LET sample_count == SampleCount(available_samples)
    IN  IF parent.possible_cards = <<>> THEN parent
        ELSE LET selected_cards == Selected(available_samples, sample_count, shuffle)
                 branches ==
                     [k \in 1..Len(selected_cards) |->
                         Branch(parent, base_hand, selected_cards[k], discard,
                                max_meld_score)]
             IN  [parent EXCEPT !.branches =
                     @ \o SelectSeq(branches, LAMBDA b : ~Pruned(parent, b))]

\* if node.depth < 3 { node.possible_cards.to_vec() } else { Vec::new() }
BaseSamples(self) == IF self.depth < MaxDepth THEN self.possible_cards ELSE <<>>

\* A record that keeps the node's whole hand, the discard still in it.
RecordedWithFullHand(self, new_hand, discard, max_meld_score) ==
    [self EXCEPT !.possible_hands =
                     Append(@, [hand |-> self.full_hand, discard |-> discard,
                                meld_score |-> max_meld_score]),
                 !.discard_pile = Append(@, discard)]

\* possible_hands.push(possible_hand); discard_pile.push_back(discard)
Recorded(self, new_hand, discard, max_meld_score) ==
    [self EXCEPT !.possible_hands =
                     Append(@, [hand |-> new_hand, discard |-> discard,
                                meld_score |-> max_meld_score]),
                 !.discard_pile = Append(@, discard)]

\* The loop of evaluate_hand over the discard candidates.
RECURSIVE EvaluateHandLoop(_, _, _, _)
EvaluateHandLoop(self, discard_idx, base_samples, shuffle) ==
    IF discard_idx > Len(self.full_hand) THEN self
    ELSE LET discard        == self.full_hand[discard_idx]
             new_hand       == WithoutIndex(self.full_hand, discard_idx)
             max_meld_score == MaxMeldScore(new_hand)
             recorded       == Recorded(self, new_hand, discard, max_meld_score)
             after ==
                 IF max_meld_score > 0
                 THEN IF self.depth < MaxDepth /\ base_samples # <<>>
                      THEN evaluate_branches_parallel(recorded, new_hand, base_samples,
                                                      discard, max_meld_score, shuffle)
                      ELSE recorded
                 ELSE self
         IN  EvaluateHandLoop(after, discard_idx + 1, base_samples, shuffle)

evaluate_hand(self, shuffle) ==
    EvaluateHandLoop([self EXCEPT !.full_hand = SortCards(@)], 1, BaseSamples(self),
                     shuffle)

\* The loop of evaluate_hand_parallel over the discard candidates.
RECURSIVE EvaluateHandParallelLoop(_, _, _, _)
EvaluateHandParallelLoop(self, discard_idx, base_samples, shuffle) ==
    IF discard_idx > Len(self.full_hand) THEN self
    ELSE LET discard        == self.full_hand[discard_idx]
             new_hand       == WithoutIndex(self.full_hand, discard_idx)
             max_meld_score == MaxMeldScore(new_hand)
             recorded       == Recorded(self, new_hand, discard, max_meld_score)
             after ==
                 IF self.depth < MaxDepth /\ base_samples # <<>>
                 THEN IF self.depth <= 1
                      THEN evaluate_branches_parallel(recorded, new_hand, base_samples,
                                                      discard, max_meld_score, shuffle)
                      ELSE evaluate_branches(recorded, new_hand, base_samples, discard,
                                             max_meld_score, shuffle)
                 ELSE recorded
         IN  EvaluateHandParallelLoop(after, discard_idx + 1, base_samples, shuffle)

evaluate_hand_parallel(self, shuffle) ==
    EvaluateHandParallelLoop([self EXCEPT !.full_hand = SortCards(@)], 1,
                             BaseSamples(self), shuffle)

\* The node of a decision point: the hand, the cards of the draw pile, and
\* the baseline calculate_best_meld_from_hand gives the hand.
Root(cards, possible_cards, depth) ==
    [full_hand      |-> cards,
     possible_hands |-> <<>>,
     possible_cards |-> possible_cards,
     discard_pile   |-> <<>>,
     meld_score     |-> <<>>,
     baseline_score |-> calculate_best_meld_from_hand(cards).score,
     branches       |-> <<>>,
     depth          |-> depth]

\* A hand with a pair and a draw pile of three cards that improve it.
PairRoot ==
    Root(<< Card(5, "s"), Card(13, "h"), Card(9, "c"), Card(5, "h"), Card(11, "d"),
            Card(2, "s") >>,
         << Card(5, "c"), Card(9, "h"), Card(11, "h") >>, 0)

\* A hand without a meld and a draw pile of eleven cards, one more than
\* SAMPLE_SIZE; one of them pairs a card of the hand.
JunkRoot ==
    Root(<< Card(13, "h"), Card(2, "s"), Card(9, "d"), Card(4, "h"), Card(11, "c"),
            Card(7, "s") >>,
         << Card(3, "d"), Card(7, "h"), Card(5, "c"), Card(6, "d"), Card(8, "c"),
            Card(10, "h"), Card(14, "c"), Card(12, "s"), Card(14, "d"), Card(3, "c"),
            Card(12, "d") >>, 0)

\* A node handed to a builder at depth 2, where evaluate_hand_parallel
\* turns to evaluate_branches.
DeepRoot ==
    Root(<< Card(5, "s"), Card(5, "h"), Card(9, "c"), Card(9, "h"), Card(11, "d"),
            Card(11, "h") >>,
         << Card(5, "c"), Card(13, "s"), Card(9, "d") >>, 2)

RootNodes == {PairRoot, JunkRoot, DeepRoot}

Shuffles(self) == 0..(Min2(NumShuffles, Len(self.possible_cards) + 1) - 1)

InitBuild ==
    /\ phase = "pending"
    /\ node \in RootNodes
    /\ \E builder \in Builders : call = [builder |-> builder, before |-> node, shuffle |-> 0]
    /\ ScoreIdle
    /\ AggIdle
    /\ PlayIdle

\* evaluate_hand(node)
EvaluateHand(shuffle) ==
    /\ phase = "pending"
    /\ call.builder = "evaluate_hand"
    /\ shuffle \in Shuffles(node)
    /\ node' = evaluate_hand(node, shuffle)
    /\ call' = [call EXCEPT !.shuffle = shuffle]
    /\ phase' = "evaluated"
    /\ UNCHANGED <<scoreVars, aggVars, playVars>>

\* evaluate_hand_parallel(node)
EvaluateHandParallel(shuffle) ==
    /\ phase = "pending"
    /\ call.builder = "evaluate_hand_parallel"
    /\ shuffle \in Shuffles(node)
    /\ node' = evaluate_hand_parallel(node, shuffle)
    /\ call' = [call EXCEPT !.shuffle = shuffle]
    /\ phase' = "evaluated"
    /\ UNCHANGED <<scoreVars, aggVars, playVars>>

\* evaluate_hand(&mut branch): the builder's call on the k-th child.
Recurse(k) ==
    /\ phase = "evaluated"
    /\ k \in 1..Len(node.branches)
    /\ node' = node.branches[k]
    /\ call' = [builder |-> "evaluate_hand", before |-> node.branches[k], shuffle |-> 0]
    /\ phase' = "pending"
    /\ UNCHANGED <<scoreVars, aggVars, playVars>>

NextBuild ==
    \/ \E shuffle \in 0..(NumShuffles - 1) : EvaluateHand(shuffle)
    \/ \E shuffle \in 0..(NumShuffles - 1) : EvaluateHandParallel(shuffle)
    \/ \E k \in 1..(6 * SAMPLE_SIZE) : Recurse(k)

SpecBuild == InitBuild /\ [][NextBuild]_vars

(***************************************************************************)
(* Strategic card valuation (analysis.rs,                                  *)
(* calculate_strategic_card_values_correct and find_worst_card_to_discard) *)
(***************************************************************************)
\* A value that is computed once and then read several times is the one
\* element of a set: `CHOOSE r \in {F(v) : v \in {e}} : TRUE` is F(e).
\* cards.contains(&target_card)
Contains(cards, target_card) == \E i \in 1..Len(cards) : cards[i] = target_card

\* The possible hands the three walks of the tree visit, in their order:
\* `for possible_hand in &self.possible_hands`, then
\* `for branch in &self.branches { branch.<walk>(...) }`.
RECURSIVE TreePossibleHands(_)
RECURSIVE BranchPossibleHands(_, _)
BranchPossibleHands(branches, k) ==
    IF k > Len(branches) THEN <<>>
    ELSE TreePossibleHands(branches[k]) \o BranchPossibleHands(branches, k + 1)

TreePossibleHands(self) == self.possible_hands \o BranchPossibleHands(self.branches, 1)

\* potential_scores.push(possible_hand.meld_score) where the card is kept,
\* potential_scores.push(0) where it is not.
PotentialScores(hands, target_card) ==
    [k \in 1..Len(hands) |->
        IF Contains(hands[k].hand, target_card) THEN hands[k].meld_score ELSE 0]

analyze_card_in_tree(self, target_card) ==
    CHOOSE potential_scores \in { PotentialScores(hands, target_card) :
                                      hands \in {TreePossibleHands(self)} } : TRUE

\* An immediate contribution computed with the 5-card resolver.
calculate_score_of_five_without_card(self, target_card) ==
    CHOOSE score \in
        { IF Len(remaining_cards) = 5
          THEN calculate_best_meld_from_5_card_hand(remaining_cards).score
          ELSE 0 :
            remaining_cards \in {SelectSeq(self.full_hand, LAMBDA c : c # target_card)} } :
        TRUE

calculate_score_without_card(self, target_card) ==
    CHOOSE score \in
        { IF Len(remaining_cards) = 5
          THEN calculate_best_meld_from_hand(remaining_cards).score
          ELSE 0 :
            remaining_cards \in {SelectSeq(self.full_hand, LAMBDA c : c # target_card)} } :
        TRUE

\* current_score - without_card, an f64 that may be negative.
calculate_immediate_contribution(self, target_card) ==
    self.baseline_score - calculate_score_without_card(self, target_card)

\* *total_potential += possible_hand.meld_score as f64 over kept[lo..hi],
\* summed by halves.
RECURSIVE TotalPotential(_, _, _)
TotalPotential(kept, lo, hi) ==
    IF lo > hi THEN 0
    ELSE IF lo = hi THEN kept[lo].meld_score
    ELSE TotalPotential(kept, lo, (lo + hi) \div 2)
           + TotalPotential(kept, ((lo + hi) \div 2) + 1, hi)

\* total_potential and scenario_count over the hands that keep the card.
collect_card_future_scenarios(self, target_card) ==
    CHOOSE acc \in
        { [total_potential |-> TotalPotential(kept, 1, Len(kept)),
           scenario_count  |-> Len(kept)] :
            kept \in {SelectSeq(TreePossibleHands(self),
                                LAMBDA ph : Contains(ph.hand, target_card))} } : TRUE

calculate_tree_future_potential(self, target_card) ==
    CHOOSE potential \in
        { IF acc.scenario_count > 0 THEN Frac(acc.total_potential, acc.scenario_count)
          ELSE Zero :
            acc \in {collect_card_future_scenarios(self, target_card)} } : TRUE

calculate_card_pair_synergy(card1, card2) ==
    LET rank_diff == Abs(to_u64(card1) - to_u64(card2))
    IN  (IF card1.rank = card2.rank THEN 5 ELSE 0)
          + (IF rank_diff <= 2 THEN 3 - rank_diff ELSE 0)
          + (IF card1.suite = card2.suite THEN 2 ELSE 0)

calculate_card_synergy(self, target_card) ==
    SumSeq([k \in 1..Len(self.full_hand) |->
               IF self.full_hand[k] # target_card
               THEN calculate_card_pair_synergy(target_card, self.full_hand[k])
               ELSE 0])

count_card_participations(self, target_card) ==
    CHOOSE acc \in
        { [participations  |->
               Len(SelectSeq(hands, LAMBDA ph : Contains(ph.hand, target_card)
                                                  /\ ph.meld_score > 0)),
           total_scenarios |-> Len(hands)] :
            hands \in {TreePossibleHands(self)} } : TRUE

calculate_participation_rate(self, target_card) ==
    CHOOSE rate \in
        { IF acc.total_scenarios > 0 THEN Frac(acc.participations, acc.total_scenarios)
          ELSE Zero :
            acc \in {count_card_participations(self, target_card)} } : TRUE

calculate_discard_risk(self, target_card, prob_analysis) ==
    LET broken(immediate_contribution) ==
            IF immediate_contribution > 0 THEN FromInt(immediate_contribution * 2)
            ELSE Zero
        participating == FMulInt(calculate_participation_rate(self, target_card), 3)
        future ==
            IF Len(prob_analysis.round_probabilities) > 1
            THEN FMul(FMulInt(prob_analysis.round_probabilities[2].risk_of_degradation,
                              self.baseline_score), Frac(1, 10))
            ELSE Zero
    IN  CHOOSE risk \in
            { FAdd(FAdd(broken(immediate_contribution), participating), future) :
                immediate_contribution \in
                    {calculate_immediate_contribution(self, target_card)} } : TRUE

calculate_future_meld_potential(self, target_card, prob_analysis) ==
    LET participation_rate(potential_scores) ==
            IF potential_scores = <<>> THEN Zero
            ELSE Frac(Len(SelectSeq(potential_scores, LAMBDA score : score > 0)),
                      Len(potential_scores))
        CardAnalysis(potential_scores, immediate_value, future_value, synergy_value,
                     risk_factor) ==
            [card                   |-> target_card,
             keep_expected_value    |-> FAdd(immediate_value, future_value),
             discard_expected_value |-> Zero,
             net_value              |-> FMulInt(participation_rate(potential_scores), 10),
             risk_impact            |-> risk_factor,
             strategic_value        |->
                 FSub(FAdd(FAdd(immediate_value, FMul(future_value, Frac(7, 10))),
                           FMul(synergy_value, Frac(1, 2))),
                      risk_factor)]
    IN  CHOOSE card_analysis \in
            { CardAnalysis(v[1], v[2], v[3], v[4], v[5]) :
                v \in {<< analyze_card_in_tree(self, target_card),
                          FromInt(calculate_immediate_contribution(self, target_card)),
                          calculate_tree_future_potential(self, target_card),
                          FromInt(calculate_card_synergy(self, target_card)),
                          calculate_discard_risk(self, target_card, prob_analysis) >>} } :
            TRUE

\* A sort that puts a value before the values equal to it.
RECURSIVE SortByStrategicValueUnstable(_)
SortByStrategicValueUnstable(card_analyses) ==
    IF card_analyses = <<>> THEN <<>>
    ELSE LET n      == Len(card_analyses)
             sorted == SortByStrategicValueUnstable(SubSeq(card_analyses, 1, n - 1))
             last   == card_analyses[n]
         IN  SelectSeq(sorted, LAMBDA a : FLt(a.strategic_value, last.strategic_value))
               \o <<last>>
               \o SelectSeq(sorted, LAMBDA a : ~FLt(a.strategic_value, last.strategic_value))

\* card_analyses.sort_by(|a, b| a.strategic_value.partial_cmp(...)): a stable
\* sort, lowest value first.
RECURSIVE SortByStrategicValue(_)
SortByStrategicValue(card_analyses) ==
    IF card_analyses = <<>> THEN <<>>
    ELSE LET n      == Len(card_analyses)
             sorted == SortByStrategicValue(SubSeq(card_analyses, 1, n - 1))
             last   == card_analyses[n]
         IN  SelectSeq(sorted, LAMBDA a : FLeq(a.strategic_value, last.strategic_value))
               \o <<last>>
               \o SelectSeq(sorted, LAMBDA a : ~FLeq(a.strategic_value, last.strategic_value))

calculate_strategic_card_values_correct(self, prob_analysis) ==
    CHOOSE sorted \in
        { SortByStrategicValue(card_analyses) :
            card_analyses \in
                {[k \in 1..Len(self.full_hand) |->
                     calculate_future_meld_potential(self, self.full_hand[k],
                                                     prob_analysis)]} } : TRUE

\* The analysis find_worst_card_to_discard passes: no rounds.
DummyProbAnalysis(self) ==
    [current_baseline |-> self.baseline_score, round_probabilities |-> <<>>]

\* A recommendation taken from the cards that can still be drawn.
find_worst_card_among_possible_cards(self) ==
    IF self.possible_cards # <<>> THEN self.possible_cards[1] ELSE self.full_hand[1]

find_worst_card_to_discard(self) ==
    CHOOSE worst \in
        { IF sorted_values # <<>> THEN sorted_values[1].card ELSE self.full_hand[1] :
            sorted_values \in
                {calculate_strategic_card_values_correct(self, DummyProbAnalysis(self))} } :
        TRUE

(***************************************************************************)
(* The decision policy (analysis.rs, make_autoplay_decision and            *)
(* make_multi_round_decision)                                              *)
(*                                                                         *)
(* Of a HandProbabilityAnalysis the policy reads current_baseline and      *)
(* round_probabilities; the other fields are left out.  f64 values are     *)
(* exact fractions, as in the aggregators.                                 *)
(***************************************************************************)
PlayerTypes == {"Conservative", "Aggressive", "Balanced"}

calculate_cumulative_probabilities(self) ==
    LET baseline == self.baseline_score
    IN  [current_baseline    |-> baseline,
         round_probabilities |->
             << create_baseline_round(baseline),
                analyze_round_with_paths(self, 1, baseline),
                analyze_round_with_paths(self, 2, baseline),
                analyze_round_with_paths(self, 3, baseline) >>]

\* round_0, then the rounds of depth 1 and 2 that are Some.
calculate_realistic_probabilities(self) ==
    LET baseline == self.baseline_score
    IN  [current_baseline    |-> baseline,
         round_probabilities |->
             << create_baseline_round(baseline) >>
                 \o analyze_realistic_round(self, 1, baseline)
                 \o analyze_realistic_round(self, 2, baseline)]

\* round_N_analysis: None, or Some of the risk-adjusted value, the
\* probability of improvement, the expected improvement and (for the
\* aggressive profile) the first final_score of the round.
RoundAnalysis(prob_analysis, baseline, idx, penalty) ==
    IF Len(prob_analysis.round_probabilities) > idx
    THEN LET r == prob_analysis.round_probabilities[idx + 1]
         IN  << [val  |-> FSub(r.expected_improvement,
                               FMul(FMul(r.risk_of_degradation, baseline), penalty)),
                 prob |-> r.probability_of_improvement,
                 imp  |-> r.expected_improvement,
                 max  |-> IF r.improvements # <<>>
                          THEN FromInt(r.improvements[1].final_score) ELSE baseline] >>
    ELSE <<>>

WeightedValue(r1, r2, r3) ==
    FAdd(FAdd(FMul(r1.val, Frac(6, 10)), FMul(r2.val, Frac(4, 10))),
         FMul(r3.val, Frac(3, 10)))

NoOption == [val |-> Zero, prob |-> Zero, imp |-> Zero, max |-> Zero, rounds |-> 0]

Option(r, val, rounds) ==
    [val |-> val, prob |-> r.prob, imp |-> r.imp, max |-> r.max, rounds |-> rounds]

\* The match of the conservative and the balanced profile on the three
\* round analyses.
BestOption(round_1, round_2, round_3) ==
    IF round_1 # <<>> /\ round_2 # <<>> /\ round_3 # <<>>
    THEN LET r1 == round_1[1]
             r2 == round_2[1]
             r3 == round_3[1]
         IN  IF FLt(FAdd(FMul(r1.val, Frac(12, 10)), FMul(r2.val, Frac(12, 10))), r3.val)
             THEN Option(r3, r3.val, 2)
             ELSE IF FLt(FMul(r1.val, Frac(12, 10)), r2.val)
             THEN Option(r2, r2.val, 2)
             ELSE Option(r1, WeightedValue(r1, r2, r3), 1)
    ELSE IF round_1 # <<>> /\ round_2 = <<>> /\ round_3 = <<>>
    THEN Option(round_1[1], round_1[1].val, 1)
    ELSE NoOption

\* The match of the aggressive profile.
BestOptionAggressive(round_1, round_2, round_3) ==
    IF round_1 # <<>> /\ round_2 # <<>> /\ round_3 # <<>>
    THEN LET r1 == round_1[1]
             r2 == round_2[1]
             r3 == round_3[1]
         IN  IF FLt(FDivInt(FAdd(FMul(r2.max, Frac(12, 10)), FMul(r1.max, Frac(12, 10))),
                            2), r3.max)
             THEN Option(r3, r3.val, 2)
             ELSE IF FLt(FMul(r1.max, Frac(12, 10)), r2.max) \/ FLt(r1.val, r2.val)
             THEN Option(r2, r2.val, 2)
             ELSE Option(r1, WeightedValue(r1, r2, r3), 1)
    ELSE IF round_1 # <<>> /\ round_2 = <<>> /\ round_3 = <<>>
    THEN Option(round_1[1], round_1[1].val, 1)
    ELSE NoOption

Decision(action, confidence, expected_score, card_to_discard) ==
    [action |-> action, confidence |-> confidence, expected_score |-> expected_score,
     card_to_discard |-> card_to_discard]

conservative_decision(self, baseline, draw_expected_score, prob_analysis) ==
    LET rounds == << RoundAnalysis(prob_analysis, baseline, 1, One),
                     RoundAnalysis(prob_analysis, baseline, 2, Frac(12, 10)),
                     RoundAnalysis(prob_analysis, baseline, 3, Frac(6, 10)) >>
        should_draw(chosen) ==
            IF baseline = Zero THEN TRUE
            ELSE IF FLt(baseline, FromInt(5))
            THEN FLt(Frac(-1, 2), chosen.val) \/ FLt(Frac(25, 100), chosen.prob)
            ELSE IF FLt(baseline, FromInt(10))
            THEN FLt(Frac(1, 2), chosen.val) \/ FLt(Frac(35, 100), chosen.prob)
            ELSE IF FLt(baseline, FromInt(15))
            THEN FLt(One, chosen.val) \/ FLt(Frac(45, 100), chosen.prob)
            ELSE IF FLt(baseline, FromInt(20))
            THEN FLt(FromInt(2), chosen.val)
                     \/ (FLt(Frac(1, 2), chosen.prob) /\ FLt(FromInt(3), chosen.imp))
            ELSE FLt(FromInt(3), chosen.val)
                     \/ (FLt(Frac(6, 10), chosen.prob)
                            /\ FLt(FMul(baseline, Frac(2, 10)), chosen.imp))
        Decide(chosen) ==
            IF should_draw(chosen) /\ chosen.rounds > 0
            THEN Decision("Draw", FAdd(Frac(6, 10), FMul(chosen.prob, Frac(3, 10))),
                          FAdd(baseline, chosen.imp), <<find_worst_card_to_discard(self)>>)
            ELSE IF prob_analysis.round_probabilities = <<>> /\ FLt(baseline, FromInt(5))
            THEN Decision("Draw", Frac(1, 2), FAdd(baseline, FromInt(2)),
                          <<find_worst_card_to_discard(self)>>)
            ELSE Decision("Play", Frac(8, 10), baseline, <<>>)
    IN  CHOOSE made \in
            { Decide(chosen) :
                chosen \in { BestOption(v[1], v[2], v[3]) : v \in {rounds} } } : TRUE

balanced_decision(self, baseline, draw_expected_score, prob_analysis) ==
    LET rounds == << RoundAnalysis(prob_analysis, baseline, 1, Frac(4, 10)),
                     RoundAnalysis(prob_analysis, baseline, 2, Frac(5, 10)),
                     RoundAnalysis(prob_analysis, baseline, 3, Frac(6, 10)) >>
        should_draw(chosen) ==
            IF baseline = Zero THEN TRUE
            ELSE IF FLt(baseline, FromInt(5))
            THEN FLt(FromInt(-1), chosen.val) \/ FLt(Frac(5, 100), chosen.prob)
            ELSE IF FLt(baseline, FromInt(10))
            THEN FLt(Zero, chosen.val) \/ FLt(Frac(10, 100), chosen.prob)
            ELSE IF FLt(baseline, FromInt(15))
            THEN FLt(Frac(1, 2), chosen.val) \/ FLt(Frac(20, 100), chosen.prob)
            ELSE IF FLt(baseline, FromInt(20))
            THEN FLt(One, chosen.val)
                     \/ (FLt(Frac(45, 100), chosen.prob) /\ FLt(Frac(25, 10), chosen.imp))
            ELSE FLt(FromInt(2), chosen.val)
                     \/ (FLt(Frac(1, 2), chosen.prob)
                            /\ FLt(FMul(baseline, Frac(15, 100)), chosen.imp))
        Decide(chosen) ==
            IF should_draw(chosen) /\ chosen.rounds > 0
            THEN Decision("Draw", FAdd(Frac(65, 100), FMul(chosen.prob, Frac(25, 100))),
                          FAdd(baseline, chosen.imp), <<find_worst_card_to_discard(self)>>)
            ELSE IF prob_analysis.round_probabilities = <<>> /\ FLt(baseline, FromInt(8))
            THEN Decision("Draw", Frac(6, 10), FAdd(baseline, FromInt(3)),
                          <<find_worst_card_to_discard(self)>>)
            ELSE Decision("Play", Frac(7, 10), baseline, <<>>)
    IN  CHOOSE made \in
            { Decide(chosen) :
                chosen \in { BestOption(v[1], v[2], v[3]) : v \in {rounds} } } : TRUE

\* The longest run of consecutive ranks in the sorted, deduplicated ranks.
RECURSIVE MaxConsecutiveLoop(_, _, _, _)
MaxConsecutiveLoop(ranks, i, consecutive_count, max_consecutive) ==
    IF i > Len(ranks) THEN max_consecutive
    ELSE IF ranks[i] = ranks[i - 1] + 1
    THEN MaxConsecutiveLoop(ranks, i + 1, consecutive_count + 1,
                            IF consecutive_count + 1 > max_consecutive
                            THEN consecutive_count + 1 ELSE max_consecutive)
    ELSE MaxConsecutiveLoop(ranks, i + 1, 1, max_consecutive)

estimate_hand_potential(self) ==
    LET cards == self.full_hand
        rank_counts == [r \in RanksOf(cards) |-> RankCount(cards, r)]
        suit_counts ==
            [s \in {cards[i].suite : i \in 1..Len(cards)} |->
                Cardinality({i \in 1..Len(cards) : cards[i].suite = s})]
        from_ranks ==
            Cardinality({r \in DOMAIN rank_counts : rank_counts[r] = 1})
                + 3 * Cardinality({r \in DOMAIN rank_counts : rank_counts[r] = 2})
        from_suits ==
            Frac(3 * SumSeq([k \in 1..Len(SuiteOrder) |->
                               IF SuiteOrder[k] \in DOMAIN suit_counts
                                    /\ suit_counts[SuiteOrder[k]] >= 3
                               THEN suit_counts[SuiteOrder[k]] ELSE 0]), 2)
        max_consecutive == MaxConsecutiveLoop(Dedup(SortU64(RankVec(cards))), 2, 1, 1)
        from_runs == IF max_consecutive >= 3 THEN max_consecutive * 2 ELSE 0
    IN  FAdd(FromInt(from_ranks + from_runs), from_suits)

aggressive_decision(self, baseline, draw_expected_score, prob_analysis) ==
    LET rounds == << RoundAnalysis(prob_analysis, baseline, 1, Frac(2, 10)),
                     RoundAnalysis(prob_analysis, baseline, 2, Frac(25, 100)),
                     RoundAnalysis(prob_analysis, baseline, 3, Frac(6, 10)) >>
        upside_multiplier(chosen) ==
            IF FLt(FMulInt(baseline, 2), chosen.max) THEN Frac(15, 10) ELSE One
        should_draw(chosen) ==
            \/ FLt(Frac(2, 10), chosen.prob)
            \/ FLt(Frac(-1, 2), FMul(chosen.val, upside_multiplier(chosen)))
            \/ FLt(FMul(baseline, Frac(15, 10)), chosen.max)
            \/ (FLt(baseline, FromInt(10)) /\ FLt(Frac(1, 2), chosen.imp))
        estimated_potential == estimate_hand_potential(self)
        Decide(chosen) ==
            IF should_draw(chosen) /\ chosen.rounds > 0
            THEN Decision("Draw", FAdd(Frac(7, 10), FMul(chosen.prob, Frac(2, 10))),
                          FAdd(baseline, FMax(FMul(chosen.imp, Frac(12, 10)),
                                              FMul(chosen.max, Frac(3, 10)))),
                          <<find_worst_card_to_discard(self)>>)
            ELSE IF /\ prob_analysis.round_probabilities = <<>>
                    /\ FLt(baseline, FromInt(20))
                    /\ FLt(FMul(baseline, Frac(3, 10)), estimated_potential)
            THEN Decision("Draw", Frac(6, 10),
                          FAdd(baseline, FMul(estimated_potential, Frac(15, 10))),
                          <<find_worst_card_to_discard(self)>>)
            ELSE Decision("Play", Frac(65, 100), baseline, <<>>)
    IN  CHOOSE made \in
            { Decide(chosen) :
                chosen \in { BestOptionAggressive(v[1], v[2], v[3]) : v \in {rounds} } } : TRUE

make_autoplay_decision(self, player_type, prob_analysis) ==
    LET baseline == FromInt(prob_analysis.current_baseline)
        draw_expected_score ==
            IF Len(prob_analysis.round_probabilities) > 1
            THEN FAdd(baseline, prob_analysis.round_probabilities[2].expected_improvement)
            ELSE baseline
    IN  CASE player_type = "Conservative" ->
                 conservative_decision(self, baseline, draw_expected_score, prob_analysis)
          [] player_type = "Aggressive" ->
                 aggressive_decision(self, baseline, draw_expected_score, prob_analysis)
          [] player_type = "Balanced" ->
                 balanced_decision(self, baseline, draw_expected_score, prob_analysis)

calculate_draw_value(round, baseline) ==
    LET risk_penalty == FMul(FMul(round.risk_of_degradation, baseline), Frac(1, 2))
        upside_bonus == IF FLt(Frac(1, 2), round.probability_of_improvement)
                        THEN FMul(round.expected_improvement, Frac(2, 10)) ELSE Zero
    IN  FAdd(FSub(round.expected_improvement, risk_penalty), upside_bonus)

make_draw_decision(self, expected_score, confidence) ==
    Decision("Draw", confidence, expected_score, <<find_worst_card_to_discard(self)>>)

make_multi_round_decision(self, player_type, prob_analysis) ==
    LET baseline == FromInt(prob_analysis.current_baseline)
        rounds   == prob_analysis.round_probabilities
        value(idx) == IF Len(rounds) > idx THEN calculate_draw_value(rounds[idx + 1], baseline)
                      ELSE Zero
        draw_once_value   == value(1)
        draw_twice_value  == value(2)
        draw_thrice_value == value(3)
        thresholds ==
            CASE player_type = "Conservative" -> <<Frac(15, 10), FromInt(3), FromInt(6)>>
              [] player_type = "Balanced"     -> <<Frac(1, 2), Frac(15, 10), FromInt(3)>>
              [] player_type = "Aggressive"   -> <<Frac(-1, 2), Frac(1, 2), One>>
    IN  IF FLt(draw_twice_value, draw_thrice_value) /\ FLt(thresholds[3], draw_thrice_value)
        THEN make_draw_decision(self, FAdd(baseline, draw_thrice_value), Frac(85, 100))
        ELSE IF FLt(draw_once_value, draw_twice_value) /\ FLt(thresholds[2], draw_twice_value)
        THEN make_draw_decision(self, FAdd(baseline, draw_twice_value), Frac(8, 10))
        ELSE IF FLt(thresholds[1], draw_once_value)
        THEN make_draw_decision(self, FAdd(baseline, draw_once_value), Frac(75, 100))
        ELSE Decision("Play", Frac(7, 10), baseline, <<>>)

(***************************************************************************)
(* Decision points.  A node is built whole: the builder evaluates every    *)
(* child before it pushes it (analysis.rs, evaluate_branches and           *)
(* evaluate_branches_parallel, `evaluate_hand(&mut branch)`).  The node is *)
(* then analysed by one of the two analyses and handed, with the analysis, *)
(* to a decision function.  The generator's outcome `shuffle` is the same  *)
(* in every call of one build.  The draw piles hold one or two cards,      *)
(* which keeps the trees below a hundred nodes.                            *)
(***************************************************************************)
\* evaluate_hand(&mut branch), on a child and the children it gets.
RECURSIVE EvaluateBranch(_, _)
EvaluateBranch(branch, shuffle) ==
    [evaluate_hand(branch, shuffle) EXCEPT !.branches =
        [k \in 1..Len(@) |-> EvaluateBranch(@[k], shuffle)]]

\* evaluate_hand_parallel(&mut node) with the evaluation of the children.
BuildTree(self, shuffle) ==
    [evaluate_hand_parallel(self, shuffle) EXCEPT !.branches =
        [k \in 1..Len(@) |-> EvaluateBranch(@[k], shuffle)]]

\* No meld; the card of the draw pile pairs a card of the hand.
JunkPairable ==
    Root(<< Card(13, "h"), Card(2, "s"), Card(9, "d"), Card(4, "h"), Card(11, "c"),
            Card(7, "s") >>,
         << Card(7, "h") >>, 0)

\* No meld, and a draw pile that gives none.
JunkDead ==
    Root(<< Card(13, "h"), Card(2, "s"), Card(9, "d"), Card(4, "h"), Card(11, "c"),
            Card(7, "s") >>,
         << Card(3, "d") >>, 0)

\* A pair; the draw pile can make three of a kind or two pair.
PairHand ==
    Root(<< Card(5, "s"), Card(13, "h"), Card(9, "c"), Card(5, "h"), Card(11, "d"),
            Card(2, "s") >>,
         << Card(5, "c"), Card(9, "h") >>, 0)

\* Three of a kind; the draw pile makes four of a kind.
TripsHand ==
    Root(<< Card(8, "s"), Card(8, "h"), Card(8, "d"), Card(13, "c"), Card(3, "d"),
            Card(11, "h") >>,
         << Card(8, "c") >>, 0)

\* A suited sequence of four; the ace makes the royal flush.
RunHand ==
    Root(<< Card(10, "s"), Card(11, "s"), Card(12, "s"), Card(13, "s"), Card(2, "d"),
            Card(5, "h") >>,
         << Card(14, "s") >>, 0)

\* A pair and a draw pile that does not help.
PairLongShot ==
    Root(<< Card(6, "s"), Card(6, "h"), Card(10, "c"), Card(3, "d"), Card(12, "h"),
            Card(14, "c") >>,
         << Card(8, "s") >>, 0)

DecisionRoots == {JunkPairable, JunkDead, PairHand, TripsHand, RunHand, PairLongShot}

Analyses == {"cumulative", "realistic"}

DecisionFunctions == {"make_autoplay_decision", "make_multi_round_decision", "ai_turn"}

InitDecide ==
    /\ phase = "dealt"
    /\ node \in DecisionRoots
    /\ call = NoCall
    /\ decision = NoDecision
    /\ card_values = NoValues
    /\ deck = NoDeck
    /\ ScoreIdle
    /\ AggIdle

\* The tree of the decision point is built.  A decision point that is not
\* built is analysed as it is (main.rs, the AI's turn).
Build(shuffle) ==
    /\ phase = "dealt"
    /\ node' = BuildTree(node, shuffle)
    /\ phase' = "built"
    /\ UNCHANGED <<call, scoreVars, aggVars, playVars>>

\* calculate_cumulative_probabilities() or calculate_realistic_probabilities()
Analyze(kind) ==
    /\ phase \in {"dealt", "built"}
    /\ analysis' = IF kind = "cumulative" THEN calculate_cumulative_probabilities(node)
                   ELSE calculate_realistic_probabilities(node)
    /\ phase' = "analyzed"
    /\ UNCHANGED <<tree, node, call, scoreVars, playVars>>

\* make_autoplay_decision(player_type, &prob_analysis)
MakeAutoplayDecision(player_type) ==
    /\ phase = "analyzed"
    /\ decision' = [by |-> "make_autoplay_decision", player_type |-> player_type,
                    made |-> make_autoplay_decision(node, player_type, analysis)]
    /\ phase' = "decided"
    /\ UNCHANGED <<node, call, card_values, deck, scoreVars, aggVars>>

\* make_multi_round_decision(player_type, &prob_analysis)
MakeMultiRoundDecision(player_type) ==
    /\ phase = "analyzed"
    /\ decision' = [by |-> "make_multi_round_decision", player_type |-> player_type,
                    made |-> make_multi_round_decision(node, player_type, analysis)]
    /\ phase' = "decided"
    /\ UNCHANGED <<node, call, card_values, deck, scoreVars, aggVars>>

\* The draw node of the AI's turn for one card of the draw pile: the baseline
\* is that of the hand before the card is pushed.
DrawNode(player_hand, possible_cards, possible_draw_card) ==
    [full_hand      |-> Append(player_hand, possible_draw_card),
     possible_hands |-> <<>>,
     possible_cards |-> possible_cards,
     discard_pile   |-> <<>>,
     meld_score     |-> <<>>,
     baseline_score |-> calculate_best_meld_from_hand(player_hand).score,
     branches       |-> <<>>,
     depth          |-> 0]

\* make_autoplay_decision on the cumulative analysis of a node that is not
\* built.
DecideUnbuilt(self, player_type) ==
    CHOOSE made \in
        { make_autoplay_decision(self, player_type, prob_analysis) :
            prob_analysis \in {calculate_cumulative_probabilities(self)} } : TRUE

\* decision.expected_score of the draw node of each card of the draw pile.
DrawScores(player_hand, possible_cards, player_type) ==
    [k \in 1..Len(possible_cards) |->
        CHOOSE expected_score \in
            { DecideUnbuilt(draw_node, player_type).expected_score :
                draw_node \in {DrawNode(player_hand, possible_cards, possible_cards[k])} } : TRUE]

\* draw_decision: the average of the draw scores, and no card to discard.
DrawDecision(player_hand, possible_cards, player_type) ==
    Decision("Draw", Frac(1, 2),
             IF possible_cards # <<>>
             THEN FDivInt(FSum(DrawScores(player_hand, possible_cards, player_type)),
                          Len(possible_cards))
             ELSE Zero,
             <<>>)

\* final_decision of the AI's turn (main.rs).
FinalDecision(retrieve_decision, draw_decision) ==
    IF FLt(draw_decision.expected_score, retrieve_decision.expected_score)
    THEN IF retrieve_decision.action = "Play"
         THEN Decision("Play", retrieve_decision.confidence,
                       retrieve_decision.expected_score, <<>>)
         ELSE Decision("Retrieve", retrieve_decision.confidence,
                       retrieve_decision.expected_score, retrieve_decision.card_to_discard)
    ELSE draw_decision

\* The AI's turn on the retrieve node: the hand with the top of the discard
\* pile pushed, not built, analysed by calculate_cumulative_probabilities.
AITurn(player_type) ==
    /\ phase = "dealt"
    /\ decision' =
           [by |-> "ai_turn", player_type |-> player_type,
            made |-> CHOOSE final_decision \in
                { FinalDecision(v[1], v[2]) :
                    v \in {<< DecideUnbuilt(node, player_type),
                              DrawDecision(SubSeq(node.full_hand, 1, 5),
                                           node.possible_cards, player_type) >>} } : TRUE]
    /\ phase' = "decided"
    /\ UNCHANGED <<node, call, card_values, deck, scoreVars, aggVars>>

\* node.find_worst_card_to_discard(): `card_values` keeps the valuation it
\* computes and the card it returns.
FindWorstCard ==
    /\ phase \in {"dealt", "built"}
    /\ card_values' =
           [values |-> calculate_strategic_card_values_correct(node, DummyProbAnalysis(node)),
            worst  |-> find_worst_card_to_discard(node)]
    /\ phase' = "valued"
    /\ UNCHANGED <<node, call, decision, deck, scoreVars, aggVars>>

NextDecide ==
    \/ \E shuffle \in 0..(NumShuffles - 1) : Build(shuffle)
    \/ \E kind \in Analyses : Analyze(kind)
    \/ \E player_type \in PlayerTypes : MakeAutoplayDecision(player_type)
    \/ \E player_type \in PlayerTypes : MakeMultiRoundDecision(player_type)
    \/ \E player_type \in PlayerTypes : AITurn(player_type)
    \/ FindWorstCard

SpecDecide == InitDecide /\ [][NextDecide]_vars

(***************************************************************************)
(* Executing an action (analysis.rs, execute_autoplay_action).  The Deck   *)
(* is its two piles; pop_back and push_back work at the end of a pile.     *)
(* The value returned is Ok(score) or Err(message).                        *)
(***************************************************************************)
Ok(score) == [ok |-> TRUE, value |-> score]

Err(message) == [ok |-> FALSE, value |-> message]

Last(pile) == pile[Len(pile)]

PopBack(pile) == SubSeq(pile, 1, Len(pile) - 1)

\* A take that discards a copy of the worst card and keeps it in the hand.
TakeCardKeepingWorst(self, new_card, draw_pile, discard_pile) ==
    LET Taken(pushed, worst_card) ==
            [self   |-> [pushed EXCEPT !.baseline_score =
                                           calculate_best_meld_from_hand(pushed.full_hand).score],
             deck   |-> [draw_pile    |-> draw_pile,
                         discard_pile |-> Append(discard_pile, worst_card)],
             result |-> Ok(calculate_best_meld_from_hand(pushed.full_hand).score)]
    IN  CHOOSE taken \in
            { Taken(pushed, find_worst_card_to_discard(pushed)) :
                pushed \in {[self EXCEPT !.full_hand = Append(@, new_card)]} } : TRUE

\* The arm of Draw and of Retrieve after pop_back gave new_card: the piles
\* are those after the pop.
TakeCard(self, new_card, draw_pile, discard_pile) ==
    LET Taken(pushed, worst_card) ==
            LET kept == SelectSeq(pushed.full_hand, LAMBDA card : card # worst_card)
            IN  CHOOSE taken \in
                    { [self   |-> [pushed EXCEPT !.full_hand = kept,
                                                 !.baseline_score = score],
                       deck   |-> [draw_pile    |-> draw_pile,
                                   discard_pile |-> Append(discard_pile, worst_card)],
                       result |-> Ok(score)] :
                        score \in {calculate_best_meld_from_hand(kept).score} } : TRUE
    IN  CHOOSE taken \in
            { Taken(pushed, find_worst_card_to_discard(pushed)) :
                pushed \in {[self EXCEPT !.full_hand = Append(@, new_card)]} } : TRUE

\* An execution in which an exhausted pile also resets the baseline.
execute_autoplay_action_resetting(self, action, piles) ==
    CASE action = "Play" ->
             [self |-> self, deck |-> piles, result |-> Ok(self.baseline_score)]
      [] action = "Draw" ->
             IF piles.draw_pile # <<>>
             THEN TakeCard(self, Last(piles.draw_pile), PopBack(piles.draw_pile),
                           piles.discard_pile)
             ELSE [self |-> [self EXCEPT !.baseline_score = 0], deck |-> piles,
                   result |-> Err("No cards left in deck")]
      [] action = "Retrieve" ->
             IF piles.discard_pile # <<>>
             THEN TakeCard(self, Last(piles.discard_pile), piles.draw_pile,
                           PopBack(piles.discard_pile))
             ELSE [self |-> [self EXCEPT !.baseline_score = 0], deck |-> piles,
                   result |-> Err("No cards left in deck")]

execute_autoplay_action(self, action, piles) ==
    CASE action = "Play" ->
             [self |-> self, deck |-> piles, result |-> Ok(self.baseline_score)]
      [] action = "Draw" ->
             IF piles.draw_pile # <<>>
             THEN TakeCard(self, Last(piles.draw_pile), PopBack(piles.draw_pile),
                           piles.discard_pile)
             ELSE [self |-> self, deck |-> piles, result |-> Err("No cards left in deck")]
      [] action = "Retrieve" ->
             IF piles.discard_pile # <<>>
             THEN TakeCard(self, Last(piles.discard_pile), piles.draw_pile,
                           PopBack(piles.discard_pile))
             ELSE [self |-> self, deck |-> piles, result |-> Err("No cards left in deck")]

PlayActions == {"Draw", "Play", "Retrieve"}

\* A player's node of five cards, with the score of the hand as baseline.
HandNode(cards) ==
    [full_hand      |-> cards,
     possible_hands |-> <<>>,
     possible_cards |-> <<>>,
     discard_pile   |-> <<>>,
     meld_score     |-> <<>>,
     baseline_score |-> calculate_best_meld_from_5_card_hand(cards).score,
     branches       |-> <<>>,
     depth          |-> 0]

ExecuteNodes ==
    { HandNode(<< Card(5, "s"), Card(13, "h"), Card(9, "c"), Card(5, "h"), Card(11, "d") >>),
      HandNode(<< Card(13, "h"), Card(2, "s"), Card(9, "d"), Card(4, "h"), Card(11, "c") >>),
      HandNode(<< Card(8, "s"), Card(8, "h"), Card(8, "d"), Card(13, "c"), Card(3, "d") >>) }

\* The piles at the start: none, one or two cards each.
DrawPiles == { <<>>, << Card(8, "c") >>, << Card(9, "h"), Card(5, "c") >> }

DiscardPiles == { <<>>, << Card(2, "d") >>, << Card(13, "d"), Card(4, "s") >> }

InitExecute ==
    /\ phase = "dealt"
    /\ node \in ExecuteNodes
    /\ deck \in [draw_pile : DrawPiles, discard_pile : DiscardPiles]
    /\ call = NoCall
    /\ decision = NoDecision
    /\ card_values = NoValues
    /\ ScoreIdle
    /\ AggIdle

\* node.execute_autoplay_action(&action, &mut deck); `call` keeps the
\* action, the node and the deck the call was made with, `decision` the
\* value returned.
ExecuteAutoplayAction(action) ==
    /\ phase \in {"dealt", "executed"}
    /\ call' = [action |-> action, node |-> node, deck |-> deck]
    /\ \E executed \in {execute_autoplay_action(node, action, deck)} :
           /\ node' = executed.self
           /\ deck' = executed.deck
           /\ decision' = executed.result
    /\ phase' = "executed"
    /\ UNCHANGED <<card_values, scoreVars, aggVars>>

NextExecute == \E action \in PlayActions : ExecuteAutoplayAction(action)

SpecExecute == InitExecute /\ [][NextExecute]_vars

(***************************************************************************)
(* Comparing two cards (card.rs)                                           *)
(*                                                                         *)
(* Card derives PartialEq and Eq, which compare every field: rank, suite   *)
(* and name, the name being a function of the rank.  Ord and PartialOrd    *)
(* are written by hand and compare Rank::to_u64, which is Ok for every     *)
(* rank.                                                                   *)
(***************************************************************************)
\* An equality that reads the rank alone.
eq_by_rank(a, b) == a.rank = b.rank

\* #[derive(PartialEq, Eq)] on Card: a == b.
eq(a, b) == a.rank = b.rank /\ a.suite = b.suite

\* impl Ord for Card: self.rank.to_u64().cmp(&other.rank.to_u64())
cmp(a, b) ==
    IF to_u64(a) < to_u64(b) THEN "Less"
    ELSE IF to_u64(a) = to_u64(b) THEN "Equal"
    ELSE "Greater"

\* impl PartialOrd for Card: Some(self.cmp(other))
partial_cmp(a, b) == <<cmp(a, b)>>

\* a < b, as PartialOrd provides it from partial_cmp.
lt(a, b) == partial_cmp(a, b) = <<"Less">>

AllCards == {Card(r, s) : r \in Ranks, s \in Suites}

\* The two cards `hand` holds are any two cards of the deck of shuffle_deck
\* or one card and its copy (Card is Copy).
InitCompare ==
    /\ phase = "dealt"
    /\ hand \in [1..2 -> AllCards]
    /\ scores = NoScores
    /\ best = NoBest
    /\ AggIdle
    /\ BuildIdle
    /\ PlayIdle

\* a == b, a.cmp(&b) and a < b of the two cards; `call` keeps the results.
CompareCards ==
    /\ phase = "dealt"
    /\ call' = [eq  |-> eq(hand[1], hand[2]),
                cmp |-> cmp(hand[1], hand[2]),
                lt  |-> lt(hand[1], hand[2])]
    /\ phase' = "compared"
    /\ UNCHANGED <<scoreVars, aggVars, node, playVars>>

NextCompare == CompareCards

SpecCompare == InitCompare /\ [][NextCompare]_vars

(***************************************************************************)
(* The meld table, stated on the cards of a hand                           *)
(***************************************************************************)
CardsOf(h) == {h[i] : i \in 1..Len(h)}

SameRank(h, n) ==
    \E S \in SUBSET (1..Len(h)) :
        Cardinality(S) = n /\ \A i, j \in S : h[i].rank = h[j].rank

PairedRanks(h) ==
    {r \in Ranks : Cardinality({i \in 1..Len(h) : h[i].rank = r}) >= 2}

SuitedRun(h, n) ==
    \E s \in Suites : \E r \in Ranks :
        \A k \in 0..(n - 1) : Card(r + k, s) \in CardsOf(h)

ConsecutiveRanks(S) ==
    \E r \in Ranks : {c.rank : c \in S} = r..(r + Cardinality(S) - 1)

IsStraight(h) == ConsecutiveRanks(CardsOf(h))

IsFlush(h) == \A i, j \in 1..Len(h) : h[i].suite = h[j].suite

\* A rank held by exactly two cards, and the other three cards in a run.
IsFullSet(h) ==
    \E r \in Ranks :
        LET pair == {c \in CardsOf(h) : c.rank = r}
        IN  /\ Cardinality(pair) = 2
            /\ Cardinality(CardsOf(h) \ pair) = 3
            /\ ConsecutiveRanks(CardsOf(h) \ pair)

IsFullHouse(h) ==
    {Cardinality({i \in 1..Len(h) : h[i].rank = r}) : r \in {c.rank : c \in CardsOf(h)}}
        = {2, 3}

RankSum(h) == SumSeq([i \in 1..Len(h) |-> h[i].rank])

\* The table: the value of each meld when its pattern matches, in the order
\* of MELD_FUNCTIONS.
TableScores(h) ==
    << IF SameRank(h, 2) THEN 2 ELSE 0,
       IF Cardinality(PairedRanks(h)) = 2 THEN 5 ELSE 0,
       IF SuitedRun(h, 3) THEN 10 ELSE 0,
       IF SameRank(h, 3) THEN 15 ELSE 0,
       IF IsStraight(h) THEN 20 ELSE 0,
       IF IsFlush(h) THEN 25 ELSE 0,
       IF SuitedRun(h, 4) THEN 30 ELSE 0,
       IF IsFullSet(h) THEN 35 ELSE 0,
       IF IsFullHouse(h) THEN 40 ELSE 0,
       IF SameRank(h, 4) THEN 50 ELSE 0,
       IF IsStraight(h) /\ IsFlush(h) THEN 80 ELSE 0,
       IF IsStraight(h) /\ IsFlush(h) /\ RankSum(h) = 60 THEN 100 ELSE 0 >>

\* The meld score of a 5-card hand: the greatest of the twelve scores.
MeldScore(h) == MaxOf(SeqRange(MeldScores(h)))

(***************************************************************************)
(* C1..C3: the scoring engine and the resolvers                            *)
(***************************************************************************)
\* C1: for every dealt 5-card hand of distinct cards, the score returned by
\* calculate_best_meld_from_5_card_hand is the greatest of the twelve scores
\* of MELD_FUNCTIONS (melds do not stack), and it is 0 exactly when each of
\* the twelve functions returns 0.
C1_BestIsMaxOfTwelve ==
    phase = "scored" =>
        /\ Len(scores) = 12
        /\ best.score \in SeqRange(scores)
        /\ \A k \in 1..12 : scores[k] <= best.score
        /\ (best.score = 0) <=> (\A k \in 1..12 : scores[k] = 0)

\* C1 witness: a scored hand on which two melds with different values match
\* (a pair and three of a kind, say) and the greater is returned.
C1_Witness ==
    /\ phase = "scored"
    /\ Cardinality(SeqRange(scores) \ {0}) >= 2
    /\ best.score = MaxOf(SeqRange(scores))

\* C2: for every dealt 5-card hand of distinct cards, each of the twelve
\* scoring functions returns its table value exactly when the hand matches
\* the pattern of its meld in the table, and 0 otherwise.
C2_FunctionsMatchTable ==
    phase = "scored" => scores = TableScores(hand)

\* C3: for every 6-card hand of distinct cards, the score returned by
\* calculate_best_meld_from_hand is the greatest meld score among the six
\* hands left by removing one card, and the hand returned is one of those
\* six hands, with that meld score.
C3_BestOfSixRemovals ==
    phase = "resolved" =>
        /\ \A i \in 1..6 : MeldScore(WithoutIndex(hand, i)) <= best.score
        /\ \E i \in 1..6 :
              /\ best.hand = WithoutIndex(hand, i)
              /\ MeldScore(best.hand) = best.score

\* C3 witness: a resolved 6-card hand whose best hand is reached only by
\* removing its last card, while another removal scores less.
C3_Witness ==
    /\ phase = "resolved"
    /\ Len(hand) = 6
    /\ best.score > 0
    /\ best.hand = WithoutIndex(hand, 6)
    /\ \A i \in 1..5 : MeldScore(WithoutIndex(hand, i)) < best.score

(***************************************************************************)
(* C4, C5: the aggregated distributions                                    *)
(***************************************************************************)
\* Every RoundProbabilities the two aggregators have produced for the tree.
ProducedRounds ==
    IF phase \notin {"paths", "realistic"} THEN {}
    ELSE {analysis.paths[i] : i \in 1..Len(analysis.paths)}
           \cup UNION {SeqRange(analysis.realistic[d]) : d \in 1..Len(analysis.realistic)}

ProbabilitySum(r) ==
    FSum([i \in 1..Len(r.improvements) |-> r.improvements[i].probability])

\* The mass of the bucket of the baseline score, 0 without such a bucket.
NoChangeMass(r) ==
    FSum([i \in 1..Len(r.improvements) |->
             IF r.improvements[i].final_score = r.baseline_score
             THEN r.improvements[i].probability ELSE Zero])

Building == phase \in {"pending", "evaluated"}

Evaluated == phase = "evaluated"

\* The children the expansion of a discard candidate added: the candidate
\* is the last card of their discard_pile.
ChildrenOf(discard) ==
    {k \in 1..Len(node.branches) :
        LET pile == node.branches[k].discard_pile IN pile[Len(pile)] = discard}

\* The cards the call's partial_shuffle selected.
SampledCards ==
    SeqRange(Selected(call.before.possible_cards,
                      SampleCount(call.before.possible_cards), call.shuffle))

\* C6: tree building from a root with a finite pool terminates: every child
\* has its parent's depth + 1, no node is deeper than 3, a node at depth 3
\* gets no children, and the expansion of one discard candidate adds at
\* most 10 children.
C6_DepthAndFanOutBounded ==
    Building =>
        /\ node.depth <= MaxDepth
        /\ \A k \in 1..Len(node.branches) : node.branches[k].depth = node.depth + 1
        /\ node.depth = MaxDepth => node.branches = <<>>
        /\ \A i \in 1..Len(node.possible_hands) :
               Cardinality(ChildrenOf(node.possible_hands[i].discard)) <= SAMPLE_SIZE

\* C6 witness: a node at depth 3, under a root whose pool held more than 10
\* cards, is evaluated with cards left in its pool and gets no children.
C6_Witness ==
    /\ Evaluated
    /\ node.depth = MaxDepth
    /\ Len(node.possible_cards) + MaxDepth > SAMPLE_SIZE
    /\ node.possible_hands # <<>>
    /\ node.branches = <<>>

\* C7: a node at depth 0 or 1 is never pruned: for every discard candidate
\* it expands, every sampled card yields a child, whatever the child's
\* baseline_score.
C7_NoPruningAtDepthZeroAndOne ==
    (Evaluated /\ node.depth <= 1) =>
        \A i \in 1..Len(node.possible_hands) : \A c \in SampledCards :
            \E k \in ChildrenOf(node.possible_hands[i].discard) :
                node.branches[k].full_hand = Append(node.possible_hands[i].hand, c)

\* C7 witness: a node at depth 1 keeps a child whose baseline is lower than
\* its own and a child whose baseline equals its own.
C7_Witness ==
    /\ Evaluated
    /\ node.depth = 1
    /\ \E k \in 1..Len(node.branches) : node.branches[k].baseline_score < node.baseline_score
    /\ \E k \in 1..Len(node.branches) : node.branches[k].baseline_score = node.baseline_score

\* C8: every child of a node at depth > 1 has a baseline_score strictly
\* greater than its parent's; the other candidates are never added to
\* branches.
C8_DeepChildrenImprove ==
    (Evaluated /\ node.depth > 1) =>
        \A k \in 1..Len(node.branches) :
            node.branches[k].baseline_score > node.baseline_score

\* C8 witness: a node at depth 2 keeps some of the sampled candidates of its
\* expanded discards and drops others.
C8_Witness ==
    /\ Evaluated
    /\ node.depth = 2
    /\ node.branches # <<>>
    /\ Len(node.branches) < Len(node.possible_hands) * Cardinality(SampledCards)

\* C9: for the same node and the same sampled cards, evaluate_hand and
\* evaluate_hand_parallel give the same possible_hands and the same set of
\* children.
C9_BuildersAgree ==
    Evaluated =>
        LET other == IF call.builder = "evaluate_hand"
                     THEN evaluate_hand_parallel(call.before, call.shuffle)
                     ELSE evaluate_hand(call.before, call.shuffle)
        IN  /\ other.possible_hands = node.possible_hands
            /\ SeqRange(other.branches) = SeqRange(node.branches)

\* C10: after a node is evaluated, possible_hands holds exactly one
\* PossibleHand per card of full_hand: the hand without that card, the card,
\* and that hand's meld score, whether the score is 0 or not.
C10_OnePossibleHandPerCard ==
    Evaluated =>
        /\ Len(node.possible_hands) = Len(node.full_hand)
        /\ \A i \in 1..Len(node.full_hand) :
               \E j \in 1..Len(node.possible_hands) :
                   node.possible_hands[j] =
                       [hand       |-> WithoutIndex(node.full_hand, i),
                        discard    |-> node.full_hand[i],
                        meld_score |-> MeldScore(WithoutIndex(node.full_hand, i))]

(***************************************************************************)
(* The decisions                                                           *)
(***************************************************************************)
\* A decision function has returned.
Decided == phase = "decided"

\* make_autoplay_decision has returned for the profile.
AutoplayDecided(player_type) ==
    /\ Decided
    /\ decision.by = "make_autoplay_decision"
    /\ decision.player_type = player_type

\* The analysis has a round 1, and some outcome of it improves the hand.
RoundOneImproves ==
    /\ Len(analysis.round_probabilities) \in {2, 3, 4}
    /\ FLt(Zero, analysis.round_probabilities[2].probability_of_improvement)

\* C11: for the Conservative profile, make_autoplay_decision on an analysis
\* with current_baseline 0 and a positive round-1 probability_of_improvement
\* returns Draw, whether round_probabilities has 2, 3 or 4 entries.
C11_ConservativeDrawsAtZero ==
    (AutoplayDecided("Conservative") /\ analysis.current_baseline = 0 /\ RoundOneImproves)
        => decision.made.action = "Draw"

\* The highest final_score among the outcomes of a round.
HighestFinalScore(round) ==
    MaxOf({round.improvements[i].final_score : i \in 1..Len(round.improvements)})

\* Round 1 has an outcome whose final_score exceeds 1.8 times the baseline.
RoundOneUpside ==
    /\ Len(analysis.round_probabilities) > 1
    /\ analysis.round_probabilities[2].improvements # <<>>
    /\ FLt(Frac(18 * analysis.current_baseline, 10),
           FromInt(HighestFinalScore(analysis.round_probabilities[2])))

\* C12: for the Aggressive profile, make_autoplay_decision returns Draw
\* whenever the highest final_score of the round-1 outcomes exceeds 1.8 times
\* the baseline, whatever the statistics of rounds 2 and 3 are.
C12_AggressiveDrawsOnUpside ==
    (AutoplayDecided("Aggressive") /\ RoundOneUpside) => decision.made.action = "Draw"

\* C13: every AutoPlayDecision produced by make_autoplay_decision, by
\* make_multi_round_decision and by the AI's turn has card_to_discard present
\* exactly when its action is Draw or Retrieve, and absent exactly when its
\* action is Play.
C13_DiscardIffCardAdded ==
    Decided =>
        (decision.made.card_to_discard # <<>>
            <=> decision.made.action \in {"Draw", "Retrieve"})

(***************************************************************************)
(* Hands around the royal flush                                            *)
(***************************************************************************)
Scored == phase = "scored"

OneSuite(h) == \A i \in 1..Len(h) : h[i].suite = h[1].suite

\* The hand is of one suite and holds exactly four of the ranks 10..A.
NearRoyal(h) ==
    /\ Len(h) = 5
    /\ OneSuite(h)
    /\ Cardinality(RanksOf(h)) = 5
    /\ Cardinality(RanksOf(h) \cap RoyalRanks) = 4

IsRoyal(h) == Len(h) = 5 /\ OneSuite(h) /\ RanksOf(h) = RoyalRanks

\* The ranks from the lowest to the highest, without a gap.
FiveInARow(h) == \A r \in MinOf(RanksOf(h))..MaxOf(RanksOf(h)) : r \in RanksOf(h)

\* Four ranks of the hand follow one another.
FourInARow(h) == \E r \in RanksOf(h) : \A d \in 1..3 : r + d \in RanksOf(h)

\* C14 as stated: 10,J,Q,K,A of one suite scores 100, and every hand of one
\* suite made of four of the ranks 10..A and a fifth card that is not the
\* missing rank has the meld score 30.
C14_NearRoyalScoresThirty ==
    Scored =>
        /\ IsRoyal(hand) => best.score = 100
        /\ NearRoyal(hand) => best.score = 30

\* C14, amended: 10,J,Q,K,A of one suite scores 100; a hand of one suite
\* made of four of the ranks 10..A and a fifth card below 10 never scores
\* 100: it scores 80 when its five ranks follow one another, 30 when only
\* four of its ranks do, and 25 (the flush) otherwise.
C14_NearRoyalScores ==
    Scored =>
        /\ IsRoyal(hand) => best.score = 100
        /\ NearRoyal(hand) =>
               best.score = IF FiveInARow(hand) THEN 80
                            ELSE IF FourInARow(hand) THEN 30
                            ELSE 25

\* A hand of four of the ranks 10..A and a fifth card of the suite that
\* scores 25: no four of its ranks follow one another.
C14_Witness ==
    /\ Scored
    /\ NearRoyal(hand)
    /\ ~FourInARow(hand)
    /\ best.score = 25

\* The hand 2s,2h,3c,3d,4s has been scored.
TwoPairScored == Scored /\ CardsOf(hand) = CardsOf(TwoPairCards)

\* C15 as stated: the hand 2s,2h,3c,3d,4s is detected as a Full Set and its
\* meld score is 35.
C15_TwoPairIsFullSet ==
    TwoPairScored => (scores[8] = 35 /\ best.score = 35)

\* C15, amended: the hand 2s,2h,3c,3d,4s is not a Full Set (full_set_score
\* gives 0: without the higher pair the ranks 2,2,4 are no run of three);
\* it is two pair and its meld score is 5.
C15_TwoPairScoresFive ==
    TwoPairScored => (scores[8] = 0 /\ scores[2] = 5 /\ best.score = 5)

C15_Witness ==
    /\ TwoPairScored
    /\ hand = TwoPairCards
    /\ best.score = 5

(***************************************************************************)
(* Executing an action on an exhausted pile                                *)
(***************************************************************************)
Executed == phase = "executed"

\* The call was a Draw on an empty draw pile or a Retrieve on an empty
\* discard pile.
Exhausted ==
    /\ Executed
    /\ \/ call.action = "Draw" /\ call.deck.draw_pile = <<>>
       \/ call.action = "Retrieve" /\ call.deck.discard_pile = <<>>

\* C16: execute_autoplay_action with Draw on an empty draw pile, or Retrieve
\* on an empty discard pile, returns an error and leaves the node's hand, its
\* baseline_score, the draw pile and the discard pile unchanged.
C16_ExhaustionChangesNothing ==
    Exhausted =>
        /\ ~decision.ok
        /\ node.full_hand = call.node.full_hand
        /\ node.baseline_score = call.node.baseline_score
        /\ deck.draw_pile = call.deck.draw_pile
        /\ deck.discard_pile = call.deck.discard_pile

\* A Draw on an empty draw pile beside a discard pile that holds cards, by a
\* node whose baseline is not 0.
C16_Witness ==
    /\ Exhausted
    /\ call.action = "Draw"
    /\ call.node.baseline_score > 0
    /\ call.deck.discard_pile # <<>>
    /\ ~decision.ok

(***************************************************************************)
(* The strategic valuation                                                 *)
(***************************************************************************)
Valued == phase = "valued"

\* The strategic value find_worst_card_to_discard gives a card of the node.
StrategicValueOf(card) ==
    calculate_future_meld_potential(node, card, DummyProbAnalysis(node)).strategic_value

\* The place of a card in the hand.
HandIndex(card) == CHOOSE i \in 1..Len(node.full_hand) : node.full_hand[i] = card

\* C17: find_worst_card_to_discard returns the card of the hand with the
\* lowest strategic value, and of several cards with the lowest value the
\* one that comes first in the hand.
C17_WorstIsFirstLowest ==
    Valued =>
        \A i \in 1..Len(node.full_hand) :
            LET lowest == StrategicValueOf(card_values.worst)
                other  == StrategicValueOf(node.full_hand[i])
            IN  /\ FLeq(lowest, other)
                /\ other = lowest => HandIndex(card_values.worst) <= i

\* Two cards of the hand share the lowest value.
C17_Witness ==
    /\ Valued
    /\ \E i \in 1..Len(node.full_hand) :
           /\ node.full_hand[i] # card_values.worst
           /\ StrategicValueOf(node.full_hand[i]) = StrategicValueOf(card_values.worst)

\* C18: for every card of a node's hand, the immediate contribution used in
\* the valuation is the node's baseline_score minus the best meld score of
\* the hand without the card: for a 6-card hand, the meld score of the
\* remaining 5 cards.
C18_ImmediateContribution ==
    Valued =>
        \A i \in 1..Len(node.full_hand) :
            calculate_immediate_contribution(node, node.full_hand[i])
                = node.baseline_score
                    - calculate_score_of_five_without_card(node, node.full_hand[i])


(***************************************************************************)
(* C19: the order of the branches                                          *)
(*                                                                         *)
(* evaluate_branches_parallel fills node.branches from a shuffled sample   *)
(* through a parallel iterator.  Reorderings(n) are the trees that differ  *)
(* from n by a permutation of the branches of some of its nodes.           *)
(***************************************************************************)
RECURSIVE Reorderings(_)
Reorderings(n) ==
    LET k == Len(n.branches)
        kids == [i \in 1..k |-> Reorderings(n.branches[i])]
        choices == {c \in [1..k -> UNION {kids[i] : i \in 1..k}] :
                       \A i \in 1..k : c[i] \in kids[i]}
    IN  IF k = 0 THEN {n}
        ELSE {[n EXCEPT !.branches = [i \in 1..k |-> c[p[i]]]] :
                 p \in Orders(k), c \in choices}

\* What AnalyzePaths and AnalyzeRealistic record of a tree.
Aggregated(self) ==
    [paths     |-> <<create_baseline_round(self.baseline_score)>> \o
                   [d \in 1..3 |-> analyze_round_with_paths(self, d, self.baseline_score)],
     realistic |-> [d \in 1..3 |-> analyze_realistic_round(self, d, self.baseline_score)]]

AggregatedAll == phase = "realistic"

Compared == phase = "compared"

\* C20: two cards compare equal exactly when they have the same rank,
\* whatever their suites, and the first orders before the second exactly
\* when its rank is the lower one.
C20_EqualityAndOrderByRank ==
    Compared =>
        /\ call.eq <=> hand[1].rank = hand[2].rank
        /\ call.lt <=> hand[1].rank < hand[2].rank

\* C20 as amended: two cards compare equal exactly when they have the same
\* rank and the same suite; the first orders before the second exactly when
\* its rank is the lower one, and cmp is Equal exactly when the ranks are
\* the same.
C20_EqualityByRankAndSuite ==
    Compared =>
        /\ call.eq <=> (hand[1].rank = hand[2].rank /\ hand[1].suite = hand[2].suite)
        /\ call.lt <=> hand[1].rank < hand[2].rank
        /\ call.cmp = "Equal" <=> hand[1].rank = hand[2].rank

\* Two cards of one rank and two suites have been compared: they are not
\* equal, and neither orders before the other.
C20_Witness ==
    /\ Compared
    /\ hand[1].rank = hand[2].rank
    /\ hand[1].suite # hand[2].suite
    /\ ~call.eq
    /\ ~call.lt
    /\ call.cmp = "Equal"

(***************************************************************************)
(* C21..C23, C30: the children of an evaluated node                        *)
(***************************************************************************)
\* The discard candidate a child was created for: the card `discard` that
\* Node { ... } pushed last on its discard_pile.
DiscardOf(child) == child.discard_pile[Len(child.discard_pile)]

\* The hand left after that discard: the child's hand before the drawn card
\* was pushed.
BaseHandOf(child) == SubSeq(child.full_hand, 1, Len(child.full_hand) - 1)

\* The sampled card the child was created for.
DrawnCardOf(child) == child.full_hand[Len(child.full_hand)]

\* C21: children are created for a discard candidate only if the node's
\* depth is less than 3 and the hand left after that discard has a meld
\* score greater than 0, at the root as well as at deeper nodes.
C21_ExpansionGate ==
    Evaluated =>
        \A k \in 1..Len(node.branches) :
            /\ node.depth < MaxDepth
            /\ MaxMeldScore(BaseHandOf(node.branches[k])) > 0

\* The greatest meld score among the 5-card hands a hand of 6 leaves when
\* one card is removed.
BestRemovalScore(h) == MaxOf({MeldScore(WithoutIndex(h, i)) : i \in 1..Len(h)})

\* C22: every child created for discard d and sampled card c has the
\* parent's hand without d, followed by c, as its full_hand, the best
\* 5-card meld score of that hand as its baseline_score, and the parent's
\* possible_cards without c as its possible_cards, c being one of the
\* parent's possible_cards; the expansion leaves the parent's own
\* possible_cards and baseline_score as they were.
C22_ChildConstruction ==
    Evaluated =>
        /\ node.possible_cards = call.before.possible_cards
        /\ node.baseline_score = call.before.baseline_score
        /\ \A k \in 1..Len(node.branches) :
               LET child == node.branches[k]
                   d     == DiscardOf(child)
                   c     == DrawnCardOf(child)
               IN  /\ c \in SeqRange(node.possible_cards)
                   /\ d \in SeqRange(node.full_hand)
                   /\ child.full_hand
                          = Append(SelectSeq(node.full_hand, LAMBDA x : x # d), c)
                   /\ child.baseline_score = BestRemovalScore(child.full_hand)
                   /\ child.possible_cards
                          = SelectSeq(node.possible_cards, LAMBDA x : x # c)

\* C22 witness: an evaluated node has children, one with a baseline above
\* the node's own and one with a baseline below it, each with a pool one
\* card shorter than the node's.
C22_Witness ==
    /\ Evaluated
    /\ \E k \in 1..Len(node.branches) :
           /\ node.branches[k].baseline_score > node.baseline_score
           /\ Len(node.branches[k].possible_cards) = Len(node.possible_cards) - 1
    /\ \E k \in 1..Len(node.branches) :
           node.branches[k].baseline_score < node.baseline_score

\* C23: every child's discard_pile is the discard_pile its parent was
\* created with, followed by exactly one occurrence of the card discarded
\* on the path to that child; it holds no card discarded for a sibling
\* discard candidate.
C23_ChildDiscardPile ==
    Evaluated =>
        \A k \in 1..Len(node.branches) :
            node.branches[k].discard_pile
                = Append(call.before.discard_pile, DiscardOf(node.branches[k]))

(***************************************************************************)
(* C24: nodes without branches and without possible hands                  *)
(***************************************************************************)
\* The nodes without branches and without possible_hands that the walk to
\* target_depth reaches, at or before that depth, each with the path to it
\* and its share of the mass: the root's 1 divided by the number of
\* branches at every node on the path.
RECURSIVE DeadEnds(_, _, _, _)
DeadEnds(n, path, target_depth, share) ==
    IF n.branches = <<>> /\ n.possible_hands = <<>>
    THEN {[path |-> path, baseline_score |-> n.baseline_score, share |-> share]}
    ELSE IF Len(path) < target_depth /\ n.branches # <<>>
    THEN UNION {DeadEnds(n.branches[i], Append(path, i), target_depth,
                         FDivInt(share, Len(n.branches))) :
                   i \in 1..Len(n.branches)}
    ELSE {}

RECURSIVE ShareSum(_)
ShareSum(ends) ==
    IF ends = {} THEN Zero
    ELSE LET e == CHOOSE e \in ends : TRUE IN FAdd(e.share, ShareSum(ends \ {e}))

\* The bucket of a score in a round's improvements, as a set of at most one.
BucketOf(round, score) ==
    {round.improvements[i] : i \in {j \in 1..Len(round.improvements) :
                                       round.improvements[j].final_score = score}}

\* C24: no mass vanishes: for every target depth, the shares of the nodes
\* without branches and without possible_hands that the walk reaches are in
\* the bucket of their baseline_score, in the path-weighted round (their
\* mass) and in the leaf-counting round (one leaf each).
C24_NoMassVanishes ==
    AggregatedAll =>
        \A d \in 1..3 :
            LET ends == DeadEnds(tree, <<>>, d, One)
            IN  \A b \in {e.baseline_score : e \in ends} :
                    LET mine == {e \in ends : e.baseline_score = b}
                    IN  /\ \E o \in BucketOf(analysis.paths[d + 1], b) :
                               FLeq(ShareSum(mine), o.probability)
                        /\ analysis.realistic[d] # <<>>
                        /\ \E o \in BucketOf(analysis.realistic[d][1], b) :
                               o.path_count >= Cardinality(mine)

(***************************************************************************)
(* C25, C28: the outcome of an executed action                             *)
(***************************************************************************)
\* The call was a Draw or a Retrieve and returned Ok.
TookCard == Executed /\ call.action \in {"Draw", "Retrieve"} /\ decision.ok

\* C25: after a successful Draw or Retrieve on a node holding a 5-card hand,
\* the returned score and the node's new baseline_score are the meld score
\* (the maximum of the 12 scoring functions) of the resulting 5-card hand.
C25_ScoreOfResultingHand ==
    (TookCard /\ Len(call.node.full_hand) = 5) =>
        /\ decision.value = MeldScore(node.full_hand)
        /\ node.baseline_score = MeldScore(node.full_hand)

(***************************************************************************)
(* C26: the full set                                                       *)
(***************************************************************************)
\* C26: full_set_score returns 35 exactly when one rank occurs twice in the
\* hand and the other three cards have three consecutive ranks, whatever
\* their suites, and 0 otherwise; the two-pair hand 2s,2h,3s,3h,4h scores 0
\* as a full set.
C26_FullSetPattern ==
    Scored =>
        /\ scores[8] = IF IsFullSet(hand) THEN 35 ELSE 0
        /\ CardsOf(hand) = {Card(2, "s"), Card(2, "h"), Card(3, "s"), Card(3, "h"),
                            Card(4, "h")} => scores[8] = 0

\* C26 witness: a hand of a pair and a run of three cards of three suites,
\* the pair above the run and dealt between its cards, scores 35.
C26_Witness ==
    /\ Scored
    /\ scores[8] = 35
    /\ hand[2].rank = 5
    /\ hand[4].rank = 5
    /\ Cardinality({hand[i].suite : i \in {1, 3, 5}}) = 3

(***************************************************************************)
(* C27: the recommended discard                                            *)
(***************************************************************************)
\* C27: the card find_worst_card_to_discard returns is a card of the node's
\* full_hand, so position(|c| *c == discard_card) finds it in the player's
\* hand, which is the node's.
C27_WorstCardInHand ==
    Valued =>
        /\ \E i \in 1..Len(node.full_hand) : node.full_hand[i] = card_values.worst
        /\ {card_values.values[i].card : i \in 1..Len(card_values.values)}
               = CardsOf(node.full_hand)

\* C27 witness: the card returned for a hand of six distinct cards is not
\* the first card of the hand, and the draw pile is not empty.
C27_Witness ==
    /\ Valued
    /\ Cardinality(CardsOf(node.full_hand)) = 6
    /\ card_values.worst # node.full_hand[1]
    /\ node.possible_cards # <<>>

\* The cards of a hand and the two piles of a deck.
CardsHeld(self, piles) ==
    CardsOf(self.full_hand) \cup CardsOf(piles.draw_pile) \cup CardsOf(piles.discard_pile)

NumberHeld(self, piles) ==
    Len(self.full_hand) + Len(piles.draw_pile) + Len(piles.discard_pile)

\* The pile the card was taken from, after the pop, and the other pile.
PilesAfterPop ==
    IF call.action = "Draw"
    THEN [draw_pile |-> PopBack(call.deck.draw_pile), discard_pile |-> call.deck.discard_pile]
    ELSE [draw_pile |-> call.deck.draw_pile, discard_pile |-> PopBack(call.deck.discard_pile)]

\* C28: every call of execute_autoplay_action, successful or failed, leaves
\* the hand with as many cards as before and the cards of hand, draw pile
\* and discard pile together the same pairwise distinct cards; a successful
\* Draw or Retrieve appends exactly one card to the discard pile, a card
\* that was in the hand and is no longer, and any other call changes no pile.
C28_CardConservation ==
    Executed =>
        /\ Len(node.full_hand) = Len(call.node.full_hand)
        /\ CardsHeld(node, deck) = CardsHeld(call.node, call.deck)
        /\ Cardinality(CardsHeld(node, deck)) = NumberHeld(node, deck)
        /\ TookCard =>
               /\ deck.draw_pile = PilesAfterPop.draw_pile
               /\ PopBack(deck.discard_pile) = PilesAfterPop.discard_pile
               /\ Last(deck.discard_pile) \notin CardsOf(node.full_hand)
               /\ Last(deck.discard_pile) \in
                      CardsOf(call.node.full_hand) \cup
                          (CardsHeld(call.node, call.deck) \ CardsHeld(call.node, PilesAfterPop))
        /\ ~TookCard => (deck = call.deck /\ node.full_hand = call.node.full_hand)

\* C28 witness: a successful Retrieve, made after an earlier action changed
\* the hand, that discards a card the hand held before the call.
C28_Witness ==
    /\ TookCard
    /\ call.action = "Retrieve"
    /\ call.node \notin ExecuteNodes
    /\ Last(deck.discard_pile) \in CardsOf(call.node.full_hand)

(***************************************************************************)
(* C29: the order of the cards of a hand                                   *)
(***************************************************************************)
\* The cards of a set in one fixed order: by rank, and by suite within a
\* rank.
CardKey(c) == 4 * c.rank + (CHOOSE k \in 1..Len(SuiteOrder) : SuiteOrder[k] = c.suite)

RECURSIVE InFixedOrder(_)
InFixedOrder(S) ==
    IF S = {} THEN <<>>
    ELSE LET first == CHOOSE c \in S : \A o \in S : CardKey(c) <= CardKey(o)
         IN  <<first>> \o InFixedOrder(S \ {first})

\* C29: the twelve scores of a 5-card hand of distinct cards, and its meld
\* score, are those of the same cards in one fixed order; every order of
\* every hand being dealt, the scores are the same for every permutation of
\* a hand.
C29_ScoresIgnoreOrder ==
    Scored =>
        /\ scores = MeldScores(InFixedOrder(CardsOf(hand)))
        /\ best.score = MeldScore(InFixedOrder(CardsOf(hand)))

\* C29 witness: a straight of two suites dealt with its ranks out of order,
\* three cards of one suite in a run among them, is scored 20.
C29_Witness ==
    /\ Scored
    /\ hand # InFixedOrder(CardsOf(hand))
    /\ hand[1].rank > hand[2].rank
    /\ hand[3].rank > hand[5].rank
    /\ scores[5] = 20
    /\ scores[3] = 10
    /\ scores[6] = 0
    /\ best.score = 20

(***************************************************************************)
(* C30: the hands of a tree                                                *)
(***************************************************************************)
\* Six distinct cards, none of them in the pool.
SixDistinct(n) ==
    /\ Len(n.full_hand) = 6
    /\ Cardinality(CardsOf(n.full_hand)) = 6
    /\ CardsOf(n.full_hand) \cap CardsOf(n.possible_cards) = {}

\* C30: in a tree built from a root of 6 distinct cards with a pool disjoint
\* from them, every node's full_hand has exactly 6 distinct cards, and every
\* recorded PossibleHand has the 5 cards of the node's full_hand other than
\* its discard card, with the meld score of those 5 cards as meld_score.
C30_HandsOfTheTree ==
    Building =>
        /\ SixDistinct(node)
        /\ \A k \in 1..Len(node.branches) : SixDistinct(node.branches[k])
        /\ \A i \in 1..Len(node.possible_hands) :
               LET ph == node.possible_hands[i]
               IN  /\ Len(ph.hand) = 5
                   /\ ph.discard \in CardsOf(node.full_hand)
                   /\ ph.hand = SelectSeq(node.full_hand, LAMBDA c : c # ph.discard)
                   /\ ph.meld_score = MeldScore(ph.hand)

\* C30 witness: a node below the root is evaluated and records possible
\* hands of two different scores, for some of its cards only.
C30_Witness ==
    /\ Evaluated
    /\ node.depth >= 1
    /\ Len(node.possible_hands) \in 2..5
    /\ \E i \in 1..Len(node.possible_hands) :
           node.possible_hands[i].meld_score # node.possible_hands[1].meld_score

=============================================================================
